---------------------------- MODULE Spec2Model ----------------------------
(***************************************************************************)
(* A model of EntityItem (libraries/entities/src/EntityItem.cpp): the      *)
(* per-entity replication engine.  The model covers the wire encoder       *)
(* (appendEntityData), the wire decoder (readEntityDataFromBuffer) with    *)
(* its accept/ignore policy, simulation-ownership handling, clock-skew     *)
(* adjustment, the kinematic extrapolator and the local edit path          *)
(* (setProperties).                                                        *)
(*                                                                         *)
(* Conventions of the model                                                *)
(*  - time stamps are quint64 values; one model tick is one second and     *)
(*    quint64 arithmetic is arithmetic modulo 2^TimeWidth;                 *)
(*  - lengths are integers in quarter-millimetres, angles in milliradians, *)
(*    damping factors in thousandths;                                      *)
(*  - a property value is a small natural number; QString valued           *)
(*    properties are numbered and QStringOf gives the characters;          *)
(*  - the wire payload is an untagged sequence of values: a reader finds   *)
(*    a property only by walking its own declared order.                   *)
(***************************************************************************)
EXTENDS Integers, Sequences, FiniteSets, TLC

VARIABLES
    now,        \* usecTimestampNow(): the local clock
    deleted,    \* tree->isDeletedEntity(_id): the tree knows the entity as deleted
    e,          \* the EntityItem (the receiving / local record)
    call,       \* the call that has arrived and runs next, with its arguments
    last,       \* the last decode or edit that ran: what it returned and decided
    hist,       \* which server edits were accepted and later superseded locally
    peer,       \* a second EntityItem: the record an encoder serialises
    packetData, \* the OctreePacketData buffer the encoder appends to
    extra,      \* EntityTreeElementExtraEncodeData: entities -> properties left
    threads,    \* where each thread is in the call it makes on the record
    lock        \* ReadWriteLockable::_lock: the writer and the readers holding it

vars == <<now, deleted, e, call, last, hist, peer, packetData, extra, threads, lock>>

---------------------------------------------------------------------------
(* Bounds of the model *)

\* the clock runs from 1 to MaxNow
MaxNow == 2
\* quint64 is modelled with TimeWidth bits
TimeWidth == 6

U64 == 2 ^ TimeWidth

Min(a, b) == IF a < b THEN a ELSE b
Max(a, b) == IF a > b THEN a ELSE b

\* quint64 subtraction a - b, b possibly a (sign-extended) negative int
SubU64(a, b) == (a - b) % U64
AddU64(a, b) == (a + b) % U64

---------------------------------------------------------------------------
(* Program constants *)

MINIMUM_HEADER_BYTES == 27
UNKNOWN_CREATED_TIME == 0
NUM_BYTES_RFC4122_UUID == 16

\* the bitstream versions readEntityDataFromBuffer distinguishes
VERSION_BEFORE_SPLIT_MTU == "before VERSION_ENTITIES_SUPPORT_SPLIT_MTU"
VERSION_CURRENT == "current"
Versions == {VERSION_BEFORE_SPLIT_MTU, VERSION_CURRENT}

\* node and entity identifiers
NullID == "null"
MyNodeID == "me"
OtherNodeID == "other"
NodeIDs == {NullID, MyNodeID, OtherNodeID}
EntityID == "entity"
ForeignEntityID == "foreign"

---------------------------------------------------------------------------
(* The properties, in the order appendEntityData appends them *)

AppendOrder ==
    << "PROP_SIMULATION_OWNER", "PROP_POSITION", "PROP_ROTATION",
       "PROP_VELOCITY", "PROP_ANGULAR_VELOCITY", "PROP_ACCELERATION",
       "PROP_DIMENSIONS", "PROP_DENSITY", "PROP_GRAVITY", "PROP_DAMPING",
       "PROP_RESTITUTION", "PROP_FRICTION", "PROP_LIFETIME", "PROP_SCRIPT",
       "PROP_SCRIPT_TIMESTAMP", "PROP_REGISTRATION_POINT",
       "PROP_ANGULAR_DAMPING", "PROP_VISIBLE", "PROP_COLLISIONLESS",
       "PROP_COLLISION_MASK", "PROP_DYNAMIC", "PROP_LOCKED",
       "PROP_USER_DATA", "PROP_MARKETPLACE_ID", "PROP_NAME",
       "PROP_COLLISION_SOUND_URL", "PROP_HREF", "PROP_DESCRIPTION",
       "PROP_ACTION_DATA", "PROP_PARENT_ID", "PROP_PARENT_JOINT_INDEX",
       "PROP_QUERY_AA_CUBE" >>

(* An order of reading that takes the restitution before the damping *)
ReadOrderRestitutionFirst ==
    << "PROP_SIMULATION_OWNER", "PROP_POSITION", "PROP_ROTATION",
       "PROP_VELOCITY", "PROP_ANGULAR_VELOCITY", "PROP_ACCELERATION",
       "PROP_DIMENSIONS", "PROP_DENSITY", "PROP_GRAVITY", "PROP_RESTITUTION",
       "PROP_DAMPING", "PROP_FRICTION", "PROP_LIFETIME", "PROP_SCRIPT",
       "PROP_SCRIPT_TIMESTAMP", "PROP_REGISTRATION_POINT",
       "PROP_ANGULAR_DAMPING", "PROP_VISIBLE", "PROP_COLLISIONLESS",
       "PROP_COLLISION_MASK", "PROP_DYNAMIC", "PROP_LOCKED",
       "PROP_USER_DATA", "PROP_MARKETPLACE_ID", "PROP_NAME",
       "PROP_COLLISION_SOUND_URL", "PROP_HREF", "PROP_DESCRIPTION",
       "PROP_ACTION_DATA", "PROP_PARENT_ID", "PROP_PARENT_JOINT_INDEX",
       "PROP_QUERY_AA_CUBE" >>

(* The properties, in the order readEntityDataFromBuffer reads them *)
ReadOrder ==
    << "PROP_SIMULATION_OWNER", "PROP_POSITION", "PROP_ROTATION",
       "PROP_VELOCITY", "PROP_ANGULAR_VELOCITY", "PROP_ACCELERATION",
       "PROP_DIMENSIONS", "PROP_DENSITY", "PROP_GRAVITY", "PROP_DAMPING",
       "PROP_RESTITUTION", "PROP_FRICTION", "PROP_LIFETIME", "PROP_SCRIPT",
       "PROP_SCRIPT_TIMESTAMP", "PROP_REGISTRATION_POINT",
       "PROP_ANGULAR_DAMPING", "PROP_VISIBLE", "PROP_COLLISIONLESS",
       "PROP_COLLISION_MASK", "PROP_DYNAMIC", "PROP_LOCKED",
       "PROP_USER_DATA", "PROP_MARKETPLACE_ID", "PROP_NAME",
       "PROP_COLLISION_SOUND_URL", "PROP_HREF", "PROP_DESCRIPTION",
       "PROP_ACTION_DATA", "PROP_PARENT_ID", "PROP_PARENT_JOINT_INDEX",
       "PROP_QUERY_AA_CUBE" >>

\* getEntityProperties: everything an EntityItem can send
getEntityProperties ==
    { "PROP_SIMULATION_OWNER", "PROP_POSITION", "PROP_ROTATION",
      "PROP_VELOCITY", "PROP_ANGULAR_VELOCITY", "PROP_ACCELERATION",
      "PROP_DIMENSIONS", "PROP_DENSITY", "PROP_GRAVITY", "PROP_DAMPING",
      "PROP_RESTITUTION", "PROP_FRICTION", "PROP_LIFETIME", "PROP_SCRIPT",
      "PROP_SCRIPT_TIMESTAMP", "PROP_COLLISION_SOUND_URL",
      "PROP_REGISTRATION_POINT", "PROP_ANGULAR_DAMPING", "PROP_VISIBLE",
      "PROP_COLLISIONLESS", "PROP_COLLISION_MASK", "PROP_DYNAMIC",
      "PROP_LOCKED", "PROP_USER_DATA", "PROP_MARKETPLACE_ID", "PROP_NAME",
      "PROP_HREF", "PROP_DESCRIPTION", "PROP_ACTION_DATA", "PROP_PARENT_ID",
      "PROP_PARENT_JOINT_INDEX", "PROP_QUERY_AA_CUBE" }

\* the transform and its derivatives, read while overwriteLocalData is
\* narrowed to "not the simulation owner"
TerseProps ==
    { "PROP_POSITION", "PROP_ROTATION", "PROP_VELOCITY",
      "PROP_ANGULAR_VELOCITY", "PROP_ACCELERATION" }

\* the properties kept in the record's props function
StoredProps == getEntityProperties \ {"PROP_SIMULATION_OWNER", "PROP_ACTION_DATA"}

---------------------------------------------------------------------------
(* Dirty flags of namespace Simulation *)

DIRTY_TRANSFORM == {"DIRTY_POSITION", "DIRTY_ROTATION"}
DIRTY_VELOCITIES == {"DIRTY_LINEAR_VELOCITY", "DIRTY_ANGULAR_VELOCITY"}
DirtyFlagNames ==
    DIRTY_TRANSFORM \cup DIRTY_VELOCITIES \cup
    { "DIRTY_MASS", "DIRTY_COLLISION_GROUP", "DIRTY_MOTION_TYPE",
      "DIRTY_SHAPE", "DIRTY_LIFETIME", "DIRTY_MATERIAL",
      "DIRTY_PHYSICS_ACTIVATION", "DIRTY_SIMULATOR_ID" }

---------------------------------------------------------------------------
(* Units and limits of the property values *)

\* one metre in model length units (quarter-millimetres)
UnitsPerMetre == 4 * 1000
\* damping 1.0 in thousandths
DampingOne == 10 * 100
\* MIN_LINEAR_SPEED = 0.001f metres per second
MIN_LINEAR_SPEED == UnitsPerMetre \div 1000
\* MIN_ANGULAR_SPEED = 0.0002f radians per second: below one milliradian
MIN_ANGULAR_SPEED == 1
\* ENTITY_COLLISION_MASK_DEFAULT: the five user collision groups
ENTITY_COLLISION_MASK_DEFAULT == 31
\* the clamping ranges of density, restitution and friction, in model units
ENTITY_ITEM_MIN_DENSITY == 1
ENTITY_ITEM_MAX_DENSITY == 3
ENTITY_ITEM_MIN_RESTITUTION == 0
ENTITY_ITEM_MAX_RESTITUTION == 2
ENTITY_ITEM_MIN_FRICTION == 0
ENTITY_ITEM_MAX_FRICTION == 2

\* QString values are numbered; these are their characters
QStringOf(v) ==
    CASE v = 0 -> << >>
      [] v = 1 -> << "h", "i", "f", "i", ":", "/", "/", "a" >>
      [] v = 2 -> << "H", "I", "F", "I", ":", "/", "/", "b" >>
      [] OTHER -> << "h", "t", "t", "p", ":", "/", "/", "c" >>

\* QChar::toLower on the letters that occur
ToLowerChar(c) ==
    CASE c = "H" -> "h"
      [] c = "I" -> "i"
      [] c = "F" -> "f"
      [] OTHER -> c

\* QString::toLower
toLower(s) == [i \in 1..Len(s) |-> ToLowerChar(s[i])]

\* QString::startsWith
startsWith(s, prefix) ==
    /\ Len(s) >= Len(prefix)
    /\ \A i \in 1..Len(prefix) : s[i] = prefix[i]

---------------------------------------------------------------------------
(* The EntityItem record *)

\* the ENTITY_ITEM_DEFAULT_ values of the constructor, in model units
DefaultValue(p) ==
    CASE p = "PROP_DIMENSIONS" -> 1
      [] p = "PROP_DENSITY" -> 2
      [] p = "PROP_VISIBLE" -> 1
      [] p = "PROP_COLLISION_MASK" -> ENTITY_COLLISION_MASK_DEFAULT
      [] OTHER -> 0

NoOwner == [id |-> NullID, priority |-> 0]

\* EntityItem::EntityItem(entityItemID), constructed at clock reading t
EntityItem(entityItemID, t) ==
    [ id |-> entityItemID,
      type |-> "Unknown",
      sourceUUID |-> NullID,
      lastSimulated |-> t,
      lastUpdated |-> t,
      lastEdited |-> 0,
      lastEditedFromRemote |-> 0,
      lastEditedFromRemoteInRemoteTime |-> 0,
      created |-> UNKNOWN_CREATED_TIME,
      simulationOwner |-> NoOwner,
      dirtyFlags |-> {},
      props |-> [p \in StoredProps |-> DefaultValue(p)],
      element |-> FALSE,
      objectActions |-> << >>,
      allActionsDataCache |-> << >>,
      previouslyDeletedActions |-> << >>,
      actionsToRemove |-> {},
      actionDataDirty |-> FALSE ]

getDirtyFlags(ent) == ent.dirtyFlags

hasActions(ent) == DOMAIN ent.objectActions # {}

\* an action suppresses location edits when it is an avatar hold action
shouldSuppressLocationEdits(ent) ==
    \E id \in DOMAIN ent.objectActions : ent.objectActions[id].type = "hold"

SetProp(ent, p, v) == [ent EXCEPT !.props[p] = v]
MarkDirty(ent, flags) == [ent EXCEPT !.dirtyFlags = @ \cup flags]

\* SimulationOwner::matchesValidID
matchesValidID(owner, id) == owner.id = id /\ owner.id # NullID

\* SimulationOwner::set(owner): takes the pair, tells whether it changed
SimulationOwnerSet(owner, newOwner) ==
    [owner |-> newOwner, changed |-> owner # newOwner]

---------------------------------------------------------------------------
(* The update and set methods the decoder and setProperties call *)

updatePosition(ent, value) ==
    IF shouldSuppressLocationEdits(ent)
    THEN ent
    ELSE IF ent.props["PROP_POSITION"] # value
         THEN MarkDirty(SetProp(ent, "PROP_POSITION", value), {"DIRTY_POSITION"})
         ELSE ent

updateRotation(ent, value) ==
    IF shouldSuppressLocationEdits(ent)
    THEN ent
    ELSE IF ent.props["PROP_ROTATION"] # value
         THEN MarkDirty(SetProp(ent, "PROP_ROTATION", value), {"DIRTY_ROTATION"})
         ELSE ent

updateVelocity(ent, value) ==
    IF shouldSuppressLocationEdits(ent)
    THEN ent
    ELSE IF ent.props["PROP_VELOCITY"] # value
         THEN MarkDirty(
                SetProp(ent, "PROP_VELOCITY",
                        IF value < MIN_LINEAR_SPEED THEN 0 ELSE value),
                {"DIRTY_LINEAR_VELOCITY"})
         ELSE ent

updateAngularVelocity(ent, value) ==
    IF shouldSuppressLocationEdits(ent)
    THEN ent
    ELSE IF ent.props["PROP_ANGULAR_VELOCITY"] # value
         THEN MarkDirty(
                SetProp(ent, "PROP_ANGULAR_VELOCITY",
                        IF value < MIN_ANGULAR_SPEED THEN 0 ELSE value),
                {"DIRTY_ANGULAR_VELOCITY"})
         ELSE ent

\* setDimensions refuses a non-positive size; updateDimensions flags anyway
updateDimensions(ent, value) ==
    IF ent.props["PROP_DIMENSIONS"] # value
    THEN MarkDirty(
           IF value <= 0 THEN ent ELSE SetProp(ent, "PROP_DIMENSIONS", value),
           {"DIRTY_SHAPE", "DIRTY_MASS"})
    ELSE ent

updateDensity(ent, value) ==
    LET clampedDensity ==
            Max(Min(value, ENTITY_ITEM_MAX_DENSITY), ENTITY_ITEM_MIN_DENSITY)
    IN  IF ent.props["PROP_DENSITY"] # clampedDensity
        THEN MarkDirty(SetProp(ent, "PROP_DENSITY", clampedDensity), {"DIRTY_MASS"})
        ELSE ent

updateGravity(ent, value) ==
    IF ent.props["PROP_GRAVITY"] # value
    THEN MarkDirty(SetProp(ent, "PROP_GRAVITY", value), {"DIRTY_LINEAR_VELOCITY"})
    ELSE ent

updateDamping(ent, value) ==
    LET clampedDamping == Max(Min(value, DampingOne), 0)
    IN  IF ent.props["PROP_DAMPING"] # clampedDamping
        THEN MarkDirty(SetProp(ent, "PROP_DAMPING", clampedDamping), {"DIRTY_MATERIAL"})
        ELSE ent

updateAngularDamping(ent, value) ==
    LET clampedDamping == Max(Min(value, DampingOne), 0)
    IN  IF ent.props["PROP_ANGULAR_DAMPING"] # clampedDamping
        THEN MarkDirty(SetProp(ent, "PROP_ANGULAR_DAMPING", clampedDamping),
                       {"DIRTY_MATERIAL"})
        ELSE ent

updateRestitution(ent, value) ==
    LET clampedValue ==
            Max(Min(ENTITY_ITEM_MAX_RESTITUTION, value), ENTITY_ITEM_MIN_RESTITUTION)
    IN  IF ent.props["PROP_RESTITUTION"] # clampedValue
        THEN MarkDirty(SetProp(ent, "PROP_RESTITUTION", clampedValue), {"DIRTY_MATERIAL"})
        ELSE ent

updateFriction(ent, value) ==
    LET clampedValue ==
            Max(Min(ENTITY_ITEM_MAX_FRICTION, value), ENTITY_ITEM_MIN_FRICTION)
    IN  IF ent.props["PROP_FRICTION"] # clampedValue
        THEN MarkDirty(SetProp(ent, "PROP_FRICTION", clampedValue), {"DIRTY_MATERIAL"})
        ELSE ent

updateLifetime(ent, value) ==
    IF ent.props["PROP_LIFETIME"] # value
    THEN MarkDirty(SetProp(ent, "PROP_LIFETIME", value), {"DIRTY_LIFETIME"})
    ELSE ent

updateCollisionless(ent, value) ==
    IF ent.props["PROP_COLLISIONLESS"] # value
    THEN MarkDirty(SetProp(ent, "PROP_COLLISIONLESS", value), {"DIRTY_COLLISION_GROUP"})
    ELSE ent

\* value & ENTITY_COLLISION_MASK_DEFAULT keeps the low five bits
updateCollisionMask(ent, value) ==
    LET masked == value % (ENTITY_COLLISION_MASK_DEFAULT + 1)
    IN  IF ent.props["PROP_COLLISION_MASK"] % (ENTITY_COLLISION_MASK_DEFAULT + 1) # masked
        THEN MarkDirty(SetProp(ent, "PROP_COLLISION_MASK", masked),
                       {"DIRTY_COLLISION_GROUP"})
        ELSE ent

updateDynamic(ent, value) ==
    IF ent.props["PROP_DYNAMIC"] # value
    THEN MarkDirty(SetProp(ent, "PROP_DYNAMIC", value), {"DIRTY_MOTION_TYPE"})
    ELSE ent

updateCreated(ent, value) ==
    IF ent.created # value
    THEN MarkDirty([ent EXCEPT !.created = value], {"DIRTY_LIFETIME"})
    ELSE ent

updateSimulationOwner(ent, owner) ==
    LET r == SimulationOwnerSet(ent.simulationOwner, owner)
    IN  IF r.changed
        THEN MarkDirty([ent EXCEPT !.simulationOwner = r.owner], {"DIRTY_SIMULATOR_ID"})
        ELSE [ent EXCEPT !.simulationOwner = r.owner]

\* setHref keeps the old value unless the new one starts with "hifi://"
setHref(ent, value) ==
    IF ~ startsWith(toLower(QStringOf(value)), << "h", "i", "f", "i", ":", "/", "/" >>)
    THEN ent
    ELSE SetProp(ent, "PROP_HREF", value)

---------------------------------------------------------------------------
(* The action ledger, as far as setActionData needs it *)

maxActionsDataSize == 800
rememberDeletedActionTime == 20

ActionIDs == {"A", "B"}
\* the order in which a QHash keyed by action id is iterated
ActionHashOrder == << "A", "B" >>

\* the bytes of one serialized action: its type, its id and its arguments
ActionBytes(sa) == 4 + NUM_BYTES_RFC4122_UUID + 380 * sa.args

RECURSIVE BlobBytes(_)
\* QByteArray::size() of a serialized QVector<QByteArray>
BlobBytes(blob) ==
    IF blob = << >> THEN 0
    ELSE IF Len(blob) = 1 THEN 4 + 4 + ActionBytes(blob[1])
    ELSE 4 + ActionBytes(blob[1]) + BlobBytes(Tail(blob))

RECURSIVE SerializeFrom(_, _)
SerializeFrom(actions, i) ==
    IF i > Len(ActionHashOrder) THEN << >>
    ELSE LET id == ActionHashOrder[i]
         IN  IF id \in DOMAIN actions
             THEN << [type |-> actions[id].type, id |-> id, args |-> actions[id].args] >>
                    \o SerializeFrom(actions, i + 1)
             ELSE SerializeFrom(actions, i + 1)

\* serializeActions(success, result)
serializeActions(ent) ==
    IF DOMAIN ent.objectActions = {}
    THEN [success |-> TRUE, result |-> << >>]
    ELSE LET result == SerializeFrom(ent.objectActions, 1)
         IN  [success |-> ~ (BlobBytes(result) >= maxActionsDataSize),
              result |-> result]

WithoutKey(f, k) == [x \in DOMAIN f \ {k} |-> f[x]]
WithKey(f, k, v) == [x \in DOMAIN f \cup {k} |-> IF x = k THEN v ELSE f[x]]

\* a removal that is not remembered
removeActionInternalUnremembered(ent, actionID, t) ==
    IF actionID \in DOMAIN ent.objectActions
    THEN LET removed == [ent EXCEPT !.objectActions = WithoutKey(@, actionID)]
             ser == serializeActions(removed)
         IN  [ent |-> MarkDirty([removed EXCEPT !.allActionsDataCache = ser.result],
                                {"DIRTY_PHYSICS_ACTIVATION"}),
              result |-> ser.success]
    ELSE [ent |-> ent, result |-> FALSE]

\* removeActionInternal(actionID, simulation), called at clock reading t
removeActionInternal(ent, actionID, t) ==
    LET marked == [ent EXCEPT !.previouslyDeletedActions = WithKey(@, actionID, t)]
    IN  IF actionID \in DOMAIN ent.objectActions
        THEN LET removed == [marked EXCEPT !.objectActions = WithoutKey(@, actionID)]
                 ser == serializeActions(removed)
             IN  [ent |-> MarkDirty([removed EXCEPT !.allActionsDataCache = ser.result],
                                    {"DIRTY_PHYSICS_ACTIVATION"}),
                  result |-> ser.success]
        ELSE [ent |-> marked, result |-> FALSE]

\* addActionInternal(simulation, action)
addActionInternal(ent, actionID, action) ==
    LET added == [ent EXCEPT !.objectActions = WithKey(@, actionID, action)]
        ser == serializeActions(added)
    IN  IF ser.success
        THEN [ent |-> MarkDirty([added EXCEPT !.allActionsDataCache = ser.result],
                                {"DIRTY_PHYSICS_ACTIVATION"}),
              result |-> TRUE]
        ELSE [ent |-> added, result |-> FALSE]

RECURSIVE checkWaitingToRemoveFrom(_, _, _)
checkWaitingToRemoveFrom(ent, i, t) ==
    IF i > Len(ActionHashOrder) THEN ent
    ELSE IF ActionHashOrder[i] \in ent.actionsToRemove
         THEN checkWaitingToRemoveFrom(
                removeActionInternal(ent, ActionHashOrder[i], t).ent, i + 1, t)
         ELSE checkWaitingToRemoveFrom(ent, i + 1, t)

\* checkWaitingToRemove(simulation)
checkWaitingToRemove(ent, t) ==
    [checkWaitingToRemoveFrom(ent, 1, t) EXCEPT !.actionsToRemove = {}]

RECURSIVE DeserializeEach(_, _, _)
\* the foreach loop of deserializeActionsInternal over the serialized actions;
\* st = [ent, updated]
DeserializeEach(st, blob, i) ==
    IF i > Len(blob) THEN st
    ELSE LET sa == blob[i]
         IN  IF sa.id \in DOMAIN st.ent.previouslyDeletedActions
             THEN DeserializeEach(st, blob, i + 1)
             ELSE IF sa.id \in DOMAIN st.ent.objectActions
                  THEN DeserializeEach(
                         [ent |-> [st.ent EXCEPT !.objectActions[sa.id] =
                                     [type |-> @.type, args |-> sa.args,
                                      locallyAddedButNotYetReceived |-> FALSE]],
                          updated |-> st.updated \cup {sa.id}],
                         blob, i + 1)
                  ELSE IF sa.type = "unknown"
                       \* factoryBA cannot build the action
                       THEN DeserializeEach(
                              [st EXCEPT !.updated = @ \cup {sa.id}], blob, i + 1)
                       ELSE DeserializeEach(
                              [ent |-> addActionInternal(st.ent, sa.id,
                                         [type |-> sa.type, args |-> sa.args,
                                          locallyAddedButNotYetReceived |-> FALSE]).ent,
                               updated |-> st.updated \cup {sa.id}],
                              blob, i + 1)

\* the end of deserializeActionsInternal: the actions the blob lacks are
\* queued for removal, remembered deletions expire; st = [ent, updated]
removeMissingActions(st, stale, t) ==
    [st.ent EXCEPT
        !.actionsToRemove = @ \cup stale,
        !.previouslyDeletedActions =
            [x \in { y \in DOMAIN @ \cup stale :
                       ~ (SubU64(t, IF y \in stale THEN t ELSE @[y])
                            > rememberDeletedActionTime) }
               |-> IF x \in stale THEN t ELSE @[x]],
        !.actionDataDirty = TRUE]

StaleActions(st) ==
    { id \in DOMAIN st.ent.objectActions :
        /\ id \notin st.updated
        /\ ~ st.ent.objectActions[id].locallyAddedButNotYetReceived }

deserializeMissing(st, t) == removeMissingActions(st, StaleActions(st), t)

\* deserializeActionsInternal(), called at clock reading t
deserializeActionsInternal(ent, t) ==
    IF ~ ent.element
    THEN ent
    ELSE deserializeMissing(
             DeserializeEach([ent |-> ent, updated |-> {}], ent.allActionsDataCache, 1),
             t)

\* setActionDataInternal(actionData), called at clock reading t
setActionDataInternal(ent, actionData, t) ==
    checkWaitingToRemove(
        IF ent.allActionsDataCache # actionData
        THEN deserializeActionsInternal(
                 [ent EXCEPT !.allActionsDataCache = actionData], t)
        ELSE ent,
        t)

\* getActionDataInternal(): re-serializes when the cache is dirty
getActionDataInternal(ent) ==
    IF ent.actionDataDirty
    THEN LET ser == serializeActions(ent)
         IN  [ent EXCEPT !.allActionsDataCache = ser.result,
                         !.actionDataDirty = ~ ser.success]
    ELSE ent

\* EntityActionInterface::updateArguments: arguments the action cannot take
\* are refused and change nothing
BadArguments == 0 - 1

updateArguments(action, arguments) ==
    IF arguments = BadArguments
    THEN [success |-> FALSE, action |-> action]
    ELSE [success |-> TRUE, action |-> [action EXCEPT !.args = arguments]]

\* addAction on failure: removeActionInternal(action->getID())
addActionRollback(ent, actionID, t) ==
    removeActionInternal(ent, actionID, t).ent

\* addAction(simulation, action), called at clock reading t
addAction(ent, actionID, action, t) ==
    LET added == addActionInternal(checkWaitingToRemove(ent, t), actionID, action)
    IN  IF ~ added.result
        THEN [ent |-> addActionRollback(added.ent, actionID, t), result |-> FALSE]
        ELSE [ent |-> [added.ent EXCEPT
                         !.objectActions[actionID].locallyAddedButNotYetReceived = TRUE],
              result |-> TRUE]

\* the arguments are updated: the cache is re-serialized in place
updateSerialized(ent, actionID, action) ==
    LET applied == [ent EXCEPT !.objectActions[actionID] = action]
        ser == serializeActions(applied)
    IN  [ent |-> MarkDirty([applied EXCEPT !.allActionsDataCache = ser.result],
                           {"DIRTY_PHYSICS_ACTIVATION"}),
         result |-> ser.success]

\* an update that looks the id up before the pending removals are done
updateActionBeforeWaiting(ent, actionID, arguments, t) ==
    IF actionID \notin DOMAIN ent.objectActions
    THEN [ent |-> ent, result |-> FALSE]
    ELSE LET upd == updateArguments(ent.objectActions[actionID], arguments)
         IN  IF upd.success
             THEN updateSerialized(checkWaitingToRemove(ent, t), actionID, upd.action)
             ELSE [ent |-> ent, result |-> FALSE]

\* updateAction(simulation, actionID, arguments), called at clock reading t
updateAction(ent, actionID, arguments, t) ==
    LET waited == checkWaitingToRemove(ent, t)
    IN  IF actionID \notin DOMAIN waited.objectActions
        THEN [ent |-> waited, result |-> FALSE]
        ELSE LET upd == updateArguments(waited.objectActions[actionID], arguments)
             IN  IF upd.success
                 THEN updateSerialized(waited, actionID, upd.action)
                 ELSE [ent |-> waited, result |-> FALSE]

\* removeAction(simulation, actionID), called at clock reading t
removeAction(ent, actionID, t) ==
    removeActionInternal(checkWaitingToRemove(ent, t), actionID, t)

\* a clear that removes the actions one by one as removeAction does
clearActionsOneByOne(ent, t) ==
    [ent |-> [checkWaitingToRemove(
                [ent EXCEPT !.actionsToRemove = DOMAIN ent.objectActions], t)
                EXCEPT !.allActionsDataCache = << >>],
     result |-> TRUE]

\* clearActions(simulation)
clearActions(ent, t) ==
    [ent |-> MarkDirty([ent EXCEPT !.objectActions = << >>,
                                   !.actionsToRemove = {},
                                   !.allActionsDataCache = << >>],
                       {"DIRTY_PHYSICS_ACTIVATION"}),
     result |-> TRUE]

\* deserializeActions()
deserializeActions(ent, t) == deserializeActionsInternal(ent, t)

\* setActionData(actionData)
setActionData(ent, actionData, t) == setActionDataInternal(ent, actionData, t)

---------------------------------------------------------------------------
(* The kinematic extrapolator *)

\* EPSILON_LINEAR_VELOCITY_LENGTH = 0.001f metres per second
EPSILON_LINEAR_VELOCITY_LENGTH == UnitsPerMetre \div 1000
\* EPSILON_ANGULAR_VELOCITY_LENGTH = 0.0017453f radians per second: an
\* integer number of milliradians is below it exactly when it is below 2
EPSILON_ANGULAR_VELOCITY_LENGTH == 2
\* a full turn in milliradians
FullTurn == 2 * 3142

Abs(x) == IF x < 0 THEN 0 - x ELSE x

\* value * powf(1.0f - damping, timeElapsed) for timeElapsed of 0 or 1 second
Damped(value, damping, timeElapsed) ==
    IF timeElapsed = 0 THEN value
    ELSE (value * (DampingOne - damping)) \div DampingOne

\* the angular half of simulateKinematicMotion
simulateAngularMotion(ent, timeElapsed, setFlags) ==
    IF ent.props["PROP_ANGULAR_VELOCITY"] = 0
    THEN ent
    ELSE LET damped ==
                 IF ent.props["PROP_ANGULAR_DAMPING"] > 0
                 THEN Damped(ent.props["PROP_ANGULAR_VELOCITY"],
                             ent.props["PROP_ANGULAR_DAMPING"], timeElapsed)
                 ELSE ent.props["PROP_ANGULAR_VELOCITY"]
             angularSpeed == Abs(damped)
         IN  IF angularSpeed < EPSILON_ANGULAR_VELOCITY_LENGTH
             THEN LET flagged ==
                          IF setFlags /\ angularSpeed > 0
                          THEN MarkDirty(ent, {"DIRTY_MOTION_TYPE"})
                          ELSE ent
                  IN  SetProp(flagged, "PROP_ANGULAR_VELOCITY", 0)
             ELSE SetProp(SetProp(ent, "PROP_ANGULAR_VELOCITY", damped),
                          "PROP_ROTATION",
                          (ent.props["PROP_ROTATION"] + damped * timeElapsed) % FullTurn)

\* a linear half that stores the integrated position also when it stops
\* the entity
simulateLinearMotionMovingToRest(ent, timeElapsed, setFlags) ==
    IF ent.props["PROP_VELOCITY"] = 0
    THEN ent
    ELSE LET damped ==
                 IF ent.props["PROP_DAMPING"] > 0
                 THEN Damped(ent.props["PROP_VELOCITY"], ent.props["PROP_DAMPING"],
                             timeElapsed)
                 ELSE ent.props["PROP_VELOCITY"]
             moved == SetProp(ent, "PROP_POSITION",
                              ent.props["PROP_POSITION"] + damped * timeElapsed)
             velocity == damped + ent.props["PROP_ACCELERATION"] * timeElapsed
         IN  IF Abs(velocity) < EPSILON_LINEAR_VELOCITY_LENGTH
             THEN IF setFlags /\ Abs(velocity) > 0
                  THEN MarkDirty(SetProp(moved, "PROP_VELOCITY", 0),
                                 {"DIRTY_MOTION_TYPE"})
                  ELSE SetProp(moved, "PROP_VELOCITY", 0)
             ELSE SetProp(moved, "PROP_VELOCITY", velocity)

\* a linear half that integrates the position with the velocity it found,
\* and damps afterwards
simulateLinearMotionDampedLast(ent, timeElapsed, setFlags) ==
    IF ent.props["PROP_VELOCITY"] = 0
    THEN ent
    ELSE SetProp(SetProp(ent, "PROP_POSITION",
                         ent.props["PROP_POSITION"]
                           + ent.props["PROP_VELOCITY"] * timeElapsed),
                 "PROP_VELOCITY",
                 Damped(ent.props["PROP_VELOCITY"], ent.props["PROP_DAMPING"],
                        timeElapsed))

\* the linear half of simulateKinematicMotion
simulateLinearMotion(ent, timeElapsed, setFlags) ==
    IF ent.props["PROP_VELOCITY"] = 0
    THEN ent
    ELSE LET damped ==
                 IF ent.props["PROP_DAMPING"] > 0
                 THEN Damped(ent.props["PROP_VELOCITY"], ent.props["PROP_DAMPING"],
                             timeElapsed)
                 ELSE ent.props["PROP_VELOCITY"]
             position == ent.props["PROP_POSITION"] + damped * timeElapsed
             velocity ==
                 IF ent.props["PROP_ACCELERATION"] # 0
                 THEN damped + ent.props["PROP_ACCELERATION"] * timeElapsed
                 ELSE damped
             speed == Abs(velocity)
         IN  IF speed < EPSILON_LINEAR_VELOCITY_LENGTH
             THEN LET stopped == SetProp(ent, "PROP_VELOCITY", 0)
                  IN  IF setFlags /\ speed > 0
                      THEN MarkDirty(stopped, {"DIRTY_MOTION_TYPE"})
                      ELSE stopped
             ELSE SetProp(SetProp(ent, "PROP_POSITION", position),
                          "PROP_VELOCITY", velocity)

\* an extrapolator that does not ask whether the entity has actions
simulateKinematicMotionWithActions(ent, timeElapsed, setFlags) ==
    simulateLinearMotion(
        simulateAngularMotion(ent, Max(0, Min(timeElapsed, 1)), setFlags),
        Max(0, Min(timeElapsed, 1)), setFlags)

\* simulateKinematicMotion(timeElapsed, setFlags); timeElapsed in seconds
simulateKinematicMotion(ent, timeElapsed, setFlags) ==
    LET clamped == Max(0, Min(timeElapsed, 1))
    IN  IF hasActions(ent)
        THEN ent
        ELSE simulateLinearMotion(
                 simulateAngularMotion(ent, clamped, setFlags), clamped, setFlags)

\* (float)(a - b) / (float)(USECS_PER_SECOND) with a, b quint64
SecondsBetween(a, b) == SubU64(a, b)

\* simulate(now)
simulate(ent, t) ==
    LET started == IF ent.lastSimulated = 0 THEN [ent EXCEPT !.lastSimulated = t] ELSE ent
        timeElapsed == SecondsBetween(t, started.lastSimulated)
    IN  [simulateKinematicMotion(started, timeElapsed, TRUE) EXCEPT !.lastSimulated = t]

---------------------------------------------------------------------------
(* The wire format *)

\* the length of a ByteCountCoded value: seven value bits to a byte
ByteCountCodedLength(v) ==
    IF v < 128 THEN 1 ELSE IF v < 128 * 128 THEN 2 ELSE 3

\* the index of p in the sequence order, 0 when it is not there
IndexIn(order, p) ==
    IF \E i \in 1..Len(order) : order[i] = p
    THEN CHOOSE i \in 1..Len(order) : order[i] = p
    ELSE 0

\* the flag bit of a property; PROP_LAST_ITEM has the highest bit
FlagBit(p) == IF p = "PROP_LAST_ITEM" THEN Len(AppendOrder) + 1 ELSE IndexIn(AppendOrder, p)

\* the encoded length of a PropertyFlags set: seven flag bits to a byte
FlagsEncodedLength(flags) ==
    IF flags = {} THEN 1
    ELSE LET top == CHOOSE b \in {FlagBit(p) : p \in flags} :
                        \A c \in {FlagBit(p) : p \in flags} : c <= b
         IN  (top \div 7) + 1

\* the bytes OctreePacketData uses for one property value
PayloadBytes(p, v) ==
    CASE p \in { "PROP_POSITION", "PROP_VELOCITY", "PROP_ANGULAR_VELOCITY",
                 "PROP_ACCELERATION", "PROP_DIMENSIONS", "PROP_GRAVITY",
                 "PROP_REGISTRATION_POINT" } -> 12
      [] p = "PROP_ROTATION" -> 8
      [] p \in { "PROP_DENSITY", "PROP_DAMPING", "PROP_RESTITUTION",
                 "PROP_FRICTION", "PROP_LIFETIME", "PROP_ANGULAR_DAMPING" } -> 4
      [] p \in { "PROP_SCRIPT", "PROP_USER_DATA", "PROP_MARKETPLACE_ID",
                 "PROP_NAME", "PROP_COLLISION_SOUND_URL", "PROP_HREF",
                 "PROP_DESCRIPTION" } -> 2 + Len(QStringOf(v))
      [] p = "PROP_SCRIPT_TIMESTAMP" -> 8
      [] p \in { "PROP_VISIBLE", "PROP_COLLISIONLESS", "PROP_COLLISION_MASK",
                 "PROP_DYNAMIC", "PROP_LOCKED" } -> 1
      [] p = "PROP_SIMULATION_OWNER" -> 2 + 1 + NUM_BYTES_RFC4122_UUID
      [] p = "PROP_ACTION_DATA" -> 2 + BlobBytes(v)
      [] p = "PROP_PARENT_ID" -> 2 + NUM_BYTES_RFC4122_UUID
      [] p = "PROP_PARENT_JOINT_INDEX" -> 2
      [] p = "PROP_QUERY_AA_CUBE" -> 16

\* the bytes of the header fields up to and including the property flags
HeaderBytes(data) ==
    NUM_BYTES_RFC4122_UUID + 1 + 8 + 8
      + ByteCountCodedLength(data.updateDelta)
      + ByteCountCodedLength(data.simulatedDelta)
      + FlagsEncodedLength(data.flags)

---------------------------------------------------------------------------
(* readEntityDataFromBuffer *)

\* the setter READ_ENTITY_PROPERTY names for property p, applied to value v
ApplyProperty(ent, p, v, t) ==
    CASE p = "PROP_POSITION" -> updatePosition(ent, v)
      [] p = "PROP_ROTATION" -> updateRotation(ent, v)
      [] p = "PROP_VELOCITY" -> updateVelocity(ent, v)
      [] p = "PROP_ANGULAR_VELOCITY" -> updateAngularVelocity(ent, v)
      [] p = "PROP_DIMENSIONS" -> updateDimensions(ent, v)
      [] p = "PROP_DENSITY" -> updateDensity(ent, v)
      [] p = "PROP_GRAVITY" -> updateGravity(ent, v)
      [] p = "PROP_DAMPING" -> updateDamping(ent, v)
      [] p = "PROP_RESTITUTION" -> updateRestitution(ent, v)
      [] p = "PROP_FRICTION" -> updateFriction(ent, v)
      [] p = "PROP_LIFETIME" -> updateLifetime(ent, v)
      [] p = "PROP_ANGULAR_DAMPING" -> updateAngularDamping(ent, v)
      [] p = "PROP_COLLISIONLESS" -> updateCollisionless(ent, v)
      [] p = "PROP_COLLISION_MASK" -> updateCollisionMask(ent, v)
      [] p = "PROP_DYNAMIC" -> updateDynamic(ent, v)
      [] p = "PROP_HREF" -> setHref(ent, v)
      [] p = "PROP_ACTION_DATA" -> setActionDataInternal(ent, v, t)
      [] OTHER -> SetProp(ent, p, v)

\* lastEditedFromBuffer - clockSkew without the clamp to the clock reading
AdjustForClockSkewUnclamped(fromBuffer, clockSkew, t) ==
    SubU64(fromBuffer, clockSkew)

\* lastEditedFromBuffer - clockSkew, not allowed to be in the future
AdjustForClockSkew(fromBuffer, clockSkew, t) ==
    LET adjusted == SubU64(fromBuffer, clockSkew)
    IN  IF adjusted > t THEN t ELSE adjusted

\* the _created block: taken from the buffer only while still unknown
readCreated(ent, createdFromBuffer, clockSkew, t) ==
    IF ent.created = UNKNOWN_CREATED_TIME
    THEN LET adjusted == SubU64(createdFromBuffer, clockSkew)
         IN  [ent EXCEPT !.created =
                 IF adjusted > t \/ adjusted = UNKNOWN_CREATED_TIME
                 THEN t ELSE adjusted]
    ELSE ent

\* a decoder that never recognises the edit it took last
fromSameServerEditNever(ent, lastEditedFromBuffer) ==
    FALSE

\* lastEditedFromBuffer == _lastEditedFromRemoteInRemoteTime
fromSameServerEdit(ent, lastEditedFromBuffer) ==
    lastEditedFromBuffer = ent.lastEditedFromRemoteInRemoteTime

\* the decision with comparisons that are not strict
ignoreServerPacketNotStrict(ent, lastEditedFromBuffer, lastEditedFromBufferAdjusted, deletedIds) ==
    \/ IF fromSameServerEdit(ent, lastEditedFromBuffer)
       THEN ent.lastEdited >= ent.lastEditedFromRemote
       ELSE ent.lastEdited >= lastEditedFromBufferAdjusted
    \/ ent.element /\ ent.id \in deletedIds

\* the decision whether the packet is older than what the record holds
ignoreServerPacket(ent, lastEditedFromBuffer, lastEditedFromBufferAdjusted, deletedIds) ==
    \/ IF fromSameServerEdit(ent, lastEditedFromBuffer)
       THEN ent.lastEdited > ent.lastEditedFromRemote
       ELSE ent.lastEdited > lastEditedFromBufferAdjusted
    \/ ent.element /\ ent.id \in deletedIds

\* the time stamps taken when the packet is used
acceptServerPacket(ent, lastEditedFromBuffer, lastEditedFromBufferAdjusted, t) ==
    [ent EXCEPT !.lastEdited = lastEditedFromBufferAdjusted,
                !.lastEditedFromRemote = t,
                !.lastEditedFromRemoteInRemoteTime = lastEditedFromBuffer]

\* a simulation-owner block that heeds the decision to ignore the packet
readSimulationOwnerUnlessIgnored(ent, newSimOwner, ignored) ==
    IF ignored
    THEN ent
    ELSE MarkDirty([ent EXCEPT !.simulationOwner = newSimOwner],
                   IF ent.simulationOwner # newSimOwner THEN {"DIRTY_SIMULATOR_ID"} ELSE {})

\* the simulation-owner block: unpacked and applied whatever the decision
readSimulationOwner(ent, newSimOwner, ignored) ==
    LET r == SimulationOwnerSet(ent.simulationOwner, newSimOwner)
    IN  IF r.changed
        THEN MarkDirty([ent EXCEPT !.simulationOwner = r.owner], {"DIRTY_SIMULATOR_ID"})
        ELSE [ent EXCEPT !.simulationOwner = r.owner]

\* the transform and velocity reads when they do not heed the decision
terseOverwriteAlways(overwriteLocalData, weOwnSimulation) ==
    ~ weOwnSimulation

\* overwriteLocalData as the transform and velocity reads see it
terseOverwrite(overwriteLocalData, weOwnSimulation) ==
    overwriteLocalData /\ ~ weOwnSimulation

\* a read that counts the bytes of a property only when it stores the value
ReadEntityPropertyCountingStored(st, data, p, overwriteLocalData, ignored, t) ==
    IF p \notin data.flags
    THEN st
    ELSE LET fromBuffer == data.payload[st.at]
         IN  [ent |-> IF p = "PROP_SIMULATION_OWNER"
                      THEN readSimulationOwner(st.ent, fromBuffer, ignored)
                      ELSE IF overwriteLocalData
                           THEN ApplyProperty(st.ent, p, fromBuffer, t)
                           ELSE st.ent,
              at |-> st.at + 1,
              consumed |-> Append(st.consumed, p),
              bytesRead |-> IF overwriteLocalData \/ p = "PROP_SIMULATION_OWNER"
                            THEN st.bytesRead + PayloadBytes(p, fromBuffer)
                            ELSE st.bytesRead]

\* READ_ENTITY_PROPERTY(P, T, S); st = [ent, at, consumed, bytesRead]
ReadEntityProperty(st, data, p, overwriteLocalData, ignored, t) ==
    IF p \notin data.flags
    THEN st
    ELSE LET fromBuffer == data.payload[st.at]
         IN  [ent |-> IF p = "PROP_SIMULATION_OWNER"
                      THEN readSimulationOwner(st.ent, fromBuffer, ignored)
                      ELSE IF overwriteLocalData
                           THEN ApplyProperty(st.ent, p, fromBuffer, t)
                           ELSE st.ent,
              at |-> st.at + 1,
              consumed |-> Append(st.consumed, p),
              bytesRead |-> st.bytesRead + PayloadBytes(p, fromBuffer)]

RECURSIVE ReadProperties(_, _, _, _, _, _, _)
\* the property reads, one after the other in the order of ReadOrder
ReadProperties(st, data, i, overwriteLocalData, weOwnSimulation, ignored, t) ==
    IF i > Len(ReadOrder) THEN st
    ELSE CHOOSE done \in
           { ReadProperties(next, data, i + 1, overwriteLocalData, weOwnSimulation,
                            ignored, t) :
               next \in { ReadEntityProperty(st, data, ReadOrder[i],
                              IF ReadOrder[i] \in TerseProps
                              THEN terseOverwrite(overwriteLocalData, weOwnSimulation)
                              ELSE overwriteLocalData,
                              ignored, t) } } : TRUE

\* whether the repair by extrapolation runs
wantsExtrapolation(ent, overwriteLocalData) ==
    overwriteLocalData
      /\ getDirtyFlags(ent) \cap (DIRTY_TRANSFORM \cup DIRTY_VELOCITIES) # {}

\* a stamp that does not ask who owns the simulation
stampsLastSimulatedAlways(ent, overwriteLocalData) ==
    overwriteLocalData

\* whether _lastSimulated is set to now at the end of the decode
stampsLastSimulated(ent, overwriteLocalData) ==
    overwriteLocalData /\ ~ matchesValidID(ent.simulationOwner, MyNodeID)

\* lastSimulatedFromBufferAdjusted
AdjustLastSimulated(lastEditedFromBufferAdjusted, simulatedDelta, overwriteLocalData, t) ==
    IF overwriteLocalData
    THEN LET adjusted == AddU64(lastEditedFromBufferAdjusted, simulatedDelta)
         IN  IF adjusted > t THEN t ELSE adjusted
    ELSE t

\* the header fields in the order readEntityDataFromBuffer parses them
HeaderReadOrder ==
    << "ID", "TYPE", "CREATED", "LAST_EDITED", "UPDATE_DELTA", "SIMULATED_DELTA",
       "PROPERTY_FLAGS" >>

\* what a call returns without having read anything
NothingRead(ent, reason) ==
    [ent |-> ent, bytesRead |-> 0, outcome |-> reason, ignored |-> FALSE,
     fromSameServerEdit |-> FALSE, lastEditedFromBuffer |-> 0,
     lastEditedFromBufferAdjusted |-> 0,
     weOwnSimulation |-> FALSE, extrapolated |-> FALSE, consumed |-> << >>,
     fields |-> << >>]

\* the end of the call: _lastSimulated is stamped, the locals are reported;
\* fields lists what was parsed, the subclass data last
finishRead(ent, read, data, loc, extrapolated, t) ==
    [ent |-> IF stampsLastSimulated(ent, ~ loc.ignored)
             THEN [ent EXCEPT !.lastSimulated = t]
             ELSE ent,
     bytesRead |-> read.bytesRead, outcome |-> "read",
     ignored |-> loc.ignored, fromSameServerEdit |-> loc.fromSameServerEdit,
     lastEditedFromBuffer |-> data.lastEdited,
     lastEditedFromBufferAdjusted |-> loc.adjusted,
     weOwnSimulation |-> loc.weOwnSimulation, extrapolated |-> extrapolated,
     consumed |-> read.consumed,
     fields |-> HeaderReadOrder \o read.consumed \o << "SUBCLASS" >>]

\* after the property reads: the repair by extrapolation from the time the
\* sender last simulated the entity
extrapolate(read, data, loc, t) ==
    IF wantsExtrapolation(read.ent, ~ loc.ignored)
    THEN finishRead(
             simulateKinematicMotion(read.ent,
                 SecondsBetween(t, AdjustLastSimulated(loc.adjusted, data.simulatedDelta,
                                                       ~ loc.ignored, t)),
                 FALSE),
             read, data, loc, TRUE, t)
    ELSE finishRead(read.ent, read, data, loc, FALSE, t)

\* the time stamps of the header, then the property reads; loc holds the
\* locals ignored, fromSameServerEdit, adjusted and weOwnSimulation
readStamped(ent, data, loc, t) ==
    CHOOSE done \in
      { extrapolate(read, data, loc, t) :
          read \in { ReadProperties(
            [ent |-> IF loc.ignored
                     THEN ent
                     ELSE [acceptServerPacket(ent, data.lastEdited, loc.adjusted, t)
                             EXCEPT !.lastUpdated = AddU64(loc.adjusted, data.updateDelta)],
             at |-> 1, consumed |-> << >>, bytesRead |-> HeaderBytes(data)],
            data, 1, ~ loc.ignored, loc.weOwnSimulation, loc.ignored, t) } } : TRUE

\* the decisions, with the ownership taken as the packet leaves it
readDecidedOwnershipAfter(ent, data, adjusted, t, deletedIds) ==
    readStamped(ent, data,
        [ignored |-> ignoreServerPacket(ent, data.lastEdited, adjusted, deletedIds),
         fromSameServerEdit |-> fromSameServerEdit(ent, data.lastEdited),
         adjusted |-> adjusted,
         weOwnSimulation |->
             matchesValidID(IF "PROP_SIMULATION_OWNER" \in data.flags
                            THEN data.payload[1]
                            ELSE ent.simulationOwner, MyNodeID)],
        t)

\* the decisions taken on the header: ent has its id, type and _created
readDecided(ent, data, adjusted, t, deletedIds) ==
    readStamped(ent, data,
        [ignored |-> ignoreServerPacket(ent, data.lastEdited, adjusted, deletedIds),
         fromSameServerEdit |-> fromSameServerEdit(ent, data.lastEdited),
         adjusted |-> adjusted,
         weOwnSimulation |-> matchesValidID(ent.simulationOwner, MyNodeID)],
        t)

\* readEntityDataFromBuffer(data, bytesLeftToRead, args) at clock reading t;
\* gives the record afterwards, the bytes read and the values of its locals
readEntityDataFromBuffer(ent, data, bytesLeftToRead, args, t, deletedIds) ==
    IF args.bitstreamVersion = VERSION_BEFORE_SPLIT_MTU
    THEN NothingRead(ent, "version")
    ELSE IF bytesLeftToRead < MINIMUM_HEADER_BYTES
         THEN NothingRead([ent EXCEPT !.sourceUUID = args.sourceUUID], "truncated")
         ELSE readDecided(
                  readCreated([ent EXCEPT !.sourceUUID = args.sourceUUID,
                                          !.id = data.id, !.type = data.type],
                              data.created, args.clockSkew, t),
                  data, AdjustForClockSkew(data.lastEdited, args.clockSkew, t),
                  t, deletedIds)

---------------------------------------------------------------------------
(* setProperties *)

\* the order of the SET_ENTITY_PROPERTY_FROM_PROPERTIES lines
SetOrder ==
    << "PROP_SIMULATION_OWNER", "PROP_POSITION", "PROP_ROTATION",
       "PROP_VELOCITY", "PROP_ANGULAR_VELOCITY", "PROP_ACCELERATION",
       "PROP_DIMENSIONS", "PROP_REGISTRATION_POINT", "PROP_DENSITY",
       "PROP_GRAVITY", "PROP_DAMPING", "PROP_ANGULAR_DAMPING",
       "PROP_RESTITUTION", "PROP_FRICTION", "PROP_COLLISIONLESS",
       "PROP_COLLISION_MASK", "PROP_DYNAMIC", "PROP_CREATED", "PROP_LIFETIME",
       "PROP_SCRIPT", "PROP_SCRIPT_TIMESTAMP", "PROP_COLLISION_SOUND_URL",
       "PROP_VISIBLE", "PROP_LOCKED", "PROP_USER_DATA", "PROP_MARKETPLACE_ID",
       "PROP_NAME", "PROP_HREF", "PROP_DESCRIPTION", "PROP_ACTION_DATA",
       "PROP_PARENT_ID", "PROP_PARENT_JOINT_INDEX", "PROP_QUERY_AA_CUBE" >>

\* SET_ENTITY_PROPERTY_FROM_PROPERTIES(P, M) for a property marked changed
SetFromProperties(ent, p, v, t) ==
    CASE p = "PROP_SIMULATION_OWNER" -> updateSimulationOwner(ent, v)
      [] p = "PROP_CREATED" -> updateCreated(ent, v)
      [] OTHER -> ApplyProperty(ent, p, v, t)

RECURSIVE SetEach(_, _, _, _)
SetEach(ent, properties, i, t) ==
    IF i > Len(SetOrder) THEN ent
    ELSE IF SetOrder[i] \in DOMAIN properties.changed
         THEN CHOOSE done \in
                { SetEach(next, properties, i + 1, t) :
                    next \in { SetFromProperties(ent, SetOrder[i],
                                                 properties.changed[SetOrder[i]], t) } } : TRUE
         ELSE SetEach(ent, properties, i + 1, t)

\* setLastEdited(now)
setLastEdited(ent, t) == [ent EXCEPT !.lastEdited = t]

\* the end of setProperties: _created is taken when it was unknown
setCreated(ent, properties, somethingChanged, t) ==
    [ent |-> IF ent.created = UNKNOWN_CREATED_TIME
                  /\ properties.created # UNKNOWN_CREATED_TIME
             THEN [ent EXCEPT !.created = Min(properties.created, t)]
             ELSE ent,
     somethingChanged |-> somethingChanged]

\* the if (somethingChanged) block of setProperties
stampEdit(ent, t) ==
    IF getDirtyFlags(ent) \cap (DIRTY_TRANSFORM \cup DIRTY_VELOCITIES) # {}
    THEN [setLastEdited(ent, t) EXCEPT !.lastSimulated = t]
    ELSE setLastEdited(ent, t)

\* setProperties(properties) at clock reading t; properties.changed maps the
\* properties marked changed to their values, properties.created is getCreated()
setProperties(ent, properties, t) ==
    IF DOMAIN properties.changed # {}
    THEN CHOOSE done \in
           { setCreated(stampEdit(set, t), properties, TRUE, t) :
               set \in { SetEach(ent, properties, 1, t) } } : TRUE
    ELSE setCreated(ent, properties, FALSE, t)

\* recordCreationTime() at clock reading t
recordCreationTime(ent, t) ==
    LET stamped == IF ent.created = UNKNOWN_CREATED_TIME
                   THEN [ent EXCEPT !.created = t]
                   ELSE ent
    IN  [stamped EXCEPT !.lastEdited = stamped.created,
                        !.lastUpdated = t,
                        !.lastSimulated = t]

---------------------------------------------------------------------------
(* appendEntityData *)

\* the header fields in the order they are appended
HeaderAppendOrder ==
    << "ID", "TYPE", "CREATED", "LAST_EDITED", "UPDATE_DELTA", "SIMULATED_DELTA",
       "PROPERTY_FLAGS" >>

\* the value the V argument of APPEND_ENTITY_PROPERTY gives for property p
AppendedValue(ent, p) ==
    CASE p = "PROP_SIMULATION_OWNER" -> ent.simulationOwner
      [] p = "PROP_ACTION_DATA" -> ent.allActionsDataCache
      [] OTHER -> ent.props[p]

\* getLastUpdated() <= getLastEdited() ? 0 : getLastUpdated() - getLastEdited()
DeltaSince(stamp, lastEdited) ==
    IF stamp <= lastEdited THEN 0 ELSE stamp - lastEdited

\* the header as it is appended first, with PROP_LAST_ITEM as its only flag
FirstHeader(ent) ==
    [id |-> ent.id, type |-> ent.type, created |-> ent.created,
     lastEdited |-> ent.lastEdited,
     updateDelta |-> DeltaSince(ent.lastUpdated, ent.lastEdited),
     simulatedDelta |-> DeltaSince(ent.lastSimulated, ent.lastEdited),
     flags |-> {"PROP_LAST_ITEM"}, payload |-> << >>]

\* a pass that asks for every property whatever the pass before left
requestedPropertiesAll(ent, extraEntities) ==
    getEntityProperties

\* requestedProperties: the set left by the pass before, when there was one
requestedProperties(ent, extraEntities) ==
    IF ent.id \in DOMAIN extraEntities
    THEN extraEntities[ent.id]
    ELSE getEntityProperties

\* APPEND_ENTITY_PROPERTY(P, V); st holds the locals propertyFlags,
\* propertiesDidntFit, propertyCount and appendState, the room left in the
\* packet, and the payload appended so far
AppendEntityProperty(st, ent, p, requested) ==
    IF p \in requested
    THEN IF PayloadBytes(p, AppendedValue(ent, p)) <= st.room
         THEN [st EXCEPT !.propertyFlags = @ \cup {p},
                         !.propertiesDidntFit = @ \ {p},
                         !.propertyCount = @ + 1,
                         !.room = @ - PayloadBytes(p, AppendedValue(ent, p)),
                         !.payload = Append(@, AppendedValue(ent, p)),
                         !.appended = Append(@, p)]
         ELSE [st EXCEPT !.appendState = "PARTIAL"]
    ELSE [st EXCEPT !.propertiesDidntFit = @ \ {p}]

RECURSIVE AppendProperties(_, _, _, _)
\* the APPEND_ENTITY_PROPERTY lines, one after the other
AppendProperties(st, ent, requested, i) ==
    IF i > Len(AppendOrder) THEN st
    ELSE CHOOSE done \in
           { AppendProperties(next, ent, requested, i + 1) :
               next \in { AppendEntityProperty(st, ent, AppendOrder[i], requested) } } : TRUE

\* the set recorded for the next pass, forgetting what this pass was asked for
propertiesLeftFromAll(st, requested) ==
    getEntityProperties \ st.propertyFlags

\* the set recorded for the next pass
propertiesLeft(st, requested) ==
    st.propertiesDidntFit

\* the bytes of one header field
HeaderFieldBytes(data, f) ==
    CASE f = "ID" -> NUM_BYTES_RFC4122_UUID
      [] f = "TYPE" -> 1
      [] f = "CREATED" -> 8
      [] f = "LAST_EDITED" -> 8
      [] f = "UPDATE_DELTA" -> ByteCountCodedLength(data.updateDelta)
      [] f = "SIMULATED_DELTA" -> ByteCountCodedLength(data.simulatedDelta)
      [] f = "PROPERTY_FLAGS" -> FlagsEncodedLength(data.flags)

RECURSIVE AppendHeader(_, _, _)
\* the header fields are appended one after the other, each only when the one
\* before it fitted; headerFits when all of them fitted
AppendHeader(st, data, i) ==
    IF i > Len(HeaderAppendOrder) THEN [st EXCEPT !.headerFits = TRUE]
    ELSE IF HeaderFieldBytes(data, HeaderAppendOrder[i]) <= st.room
         THEN AppendHeader(
                [st EXCEPT !.room = @ - HeaderFieldBytes(data, HeaderAppendOrder[i]),
                           !.header = Append(@, HeaderAppendOrder[i])],
                data, i + 1)
         ELSE st

\* the level opened by startLevel: the fields appended since, and their bytes
LevelOf(st) ==
    [fields |-> st.header \o st.appended, size |-> st.start - st.room]

\* OctreePacketData::endLevel keeps what was appended since startLevel
endLevel(level) == level

\* OctreePacketData::discardLevel puts the buffer back to where startLevel
\* found it
discardLevel(level) == [fields |-> << >>, size |-> 0]

\* the flags are rewritten with what fitted, and what follows them moves down
\* when they got shorter
rewriteFlags(level, propertyFlags) ==
    [level EXCEPT !.size = @ - (FlagsEncodedLength({"PROP_LAST_ITEM"})
                                  - FlagsEncodedLength(propertyFlags))]

\* nothing was included, and the level is kept all the same
keepEntityLevel(st) ==
    [appendState |-> "NONE", level |-> endLevel(LevelOf(st))]

\* nothing was included: the level is discarded and the state is NONE
discardEntityLevel(st) ==
    [appendState |-> "NONE", level |-> discardLevel(LevelOf(st))]

\* the end of appendEntityData: the flags are rewritten and the level ends,
\* or the level is discarded; the properties left are recorded
finishAppend(st, ent, requested, extraEntities) ==
    IF st.propertyCount > 0
    THEN [appendState |-> st.appendState,
          data |-> [FirstHeader(ent) EXCEPT !.flags = st.propertyFlags,
                                            !.payload = st.payload],
          fields |-> endLevel(LevelOf(st)).fields \o << "SUBCLASS" >>,
          size |-> endLevel(rewriteFlags(LevelOf(st), st.propertyFlags)).size,
          appended |-> st.appended,
          requested |-> requested,
          headerFits |-> st.headerFits,
          entities |-> IF st.appendState # "COMPLETED"
                       THEN WithKey(extraEntities, ent.id, propertiesLeft(st, requested))
                       ELSE extraEntities]
    ELSE [appendState |-> discardEntityLevel(st).appendState,
          data |-> FirstHeader(ent),
          fields |-> discardEntityLevel(st).level.fields,
          size |-> discardEntityLevel(st).level.size,
          appended |-> << >>,
          requested |-> requested,
          headerFits |-> st.headerFits,
          entities |-> WithKey(extraEntities, ent.id, propertiesLeft(st, requested))]

\* the locals of appendEntityData before the header is appended, and the
\* level startLevel opens in a packet with room bytes left
FirstLocals(room) ==
    [propertyFlags |-> {}, propertiesDidntFit |-> getEntityProperties,
     propertyCount |-> 0, appendState |-> "COMPLETED", room |-> room,
     start |-> room, header |-> << >>,
     payload |-> << >>, appended |-> << >>, headerFits |-> FALSE]

\* the properties are appended when the header fitted
AppendAfterHeader(st, ent, requested) ==
    IF st.headerFits
    THEN AppendProperties(st, ent, requested, 1)
    ELSE st

\* appendEntityData(packetData, params, entityTreeElementExtraEncodeData) into
\* a packet with room bytes left; extraEntities is the entities map
appendEntityData(ent, room, extraEntities) ==
    CHOOSE done \in
      { finishAppend(st, ent, requestedProperties(ent, extraEntities), extraEntities) :
          st \in { AppendAfterHeader(hdr, ent, requestedProperties(ent, extraEntities)) :
                     hdr \in { AppendHeader(FirstLocals(room), FirstHeader(ent), 1) } } } : TRUE

---------------------------------------------------------------------------
(* The state machine *)

NoCall == [op |-> "none"]

\* two threads use the record; neither is in a call, nobody holds the lock
Threads == {"T1", "T2"}
NoThread == "none"
Idle == [at |-> "idle"]
Unlocked == [writer |-> NoThread, readers |-> {}]
NoLast == [op |-> "none"]
NoHist ==
    [accepted |-> {}, superseded |-> {}, everSuperseded |-> {},
     asked |-> {}, sent |-> {}, sentTwice |-> {}, headerFitted |-> TRUE,
     completed |-> FALSE]
EmptyPacketData ==
    [appendState |-> "NONE", data |-> << >>, fields |-> << >>, size |-> 0]

\* a decode call: the bytes of one entity, their number, and the arguments
DecodeCall(data, bytesLeftToRead, args) ==
    [op |-> "decode", data |-> data, bytesLeftToRead |-> bytesLeftToRead, args |-> args]

EditCall(properties) == [op |-> "setProperties", properties |-> properties]

\* the bytes a well-formed packet with this content occupies
RECURSIVE PayloadBytesFrom(_, _, _)
PayloadBytesFrom(data, i, at) ==
    IF i > Len(AppendOrder) THEN 0
    ELSE IF AppendOrder[i] \in data.flags
         THEN PayloadBytes(AppendOrder[i], data.payload[at])
                + PayloadBytesFrom(data, i + 1, at + 1)
         ELSE PayloadBytesFrom(data, i + 1, at)

PacketBytes(data) == HeaderBytes(data) + PayloadBytesFrom(data, 1, 1)

Init ==
    /\ now = 1
    /\ deleted = {}
    /\ e = EntityItem(EntityID, 1)
    /\ call = NoCall
    /\ last = NoLast
    /\ hist = NoHist
    /\ peer = EntityItem(EntityID, 1)
    /\ packetData = EmptyPacketData
    /\ extra = << >>
    /\ threads = [th \in Threads |-> Idle]
    /\ lock = Unlocked

\* the clock advances
Tick ==
    /\ call.op = "none"
    /\ now < MaxNow
    /\ now' = now + 1
    /\ UNCHANGED <<deleted, e, call, last, hist, peer, packetData, extra, threads, lock>>

\* the tree element takes the entity in: _element is set
AddToTree ==
    /\ call.op = "none"
    /\ ~ e.element
    /\ e' = [e EXCEPT !.element = TRUE]
    /\ UNCHANGED <<now, deleted, call, last, hist, peer, packetData, extra, threads, lock>>

\* the tree learns that the entity was deleted
MarkDeleted ==
    /\ call.op = "none"
    /\ e.element
    /\ EntityID \notin deleted
    /\ deleted' = deleted \cup {EntityID}
    /\ UNCHANGED <<now, e, call, last, hist, peer, packetData, extra, threads, lock>>

\* the physics engine consumes the dirty flags: clearDirtyFlags()
ClearDirtyFlags ==
    /\ call.op = "none"
    /\ e.dirtyFlags # {}
    /\ e' = [e EXCEPT !.dirtyFlags = {}]
    /\ UNCHANGED <<now, deleted, call, last, hist, peer, packetData, extra, threads, lock>>

\* the position the model lets the entity reach
MaxPosition == 3 * UnitsPerMetre

\* the extrapolator moves the record by at most its speed in one call
WithinReach(ent) ==
    ent.props["PROP_POSITION"] + Abs(ent.props["PROP_VELOCITY"]) <= MaxPosition

\* a decode call from the set calls arrives
Receive(calls) ==
    /\ call.op = "none"
    /\ WithinReach(e)
    /\ \E c \in calls : call' = c
    /\ UNCHANGED <<now, deleted, e, last, hist, peer, packetData, extra, threads, lock>>

\* a setProperties call from the set calls arrives
Edit(calls) ==
    /\ call.op = "none"
    /\ \E c \in calls : call' = c
    /\ UNCHANGED <<now, deleted, e, last, hist, peer, packetData, extra, threads, lock>>

\* the history of server edits: accepted is the remote edit time of the last
\* packet used; superseded holds it once a local edit is newer than its
\* arrival, until another packet is used; everSuperseded never forgets
HistAfterDecode(h, r) ==
    IF r.outcome = "read" /\ ~ r.ignored
    THEN [h EXCEPT !.accepted = {r.lastEditedFromBuffer}, !.superseded = {}]
    ELSE h

HistAfterEdit(h, ent) ==
    IF ent.lastEdited > ent.lastEditedFromRemote
    THEN [h EXCEPT !.superseded = h.accepted, !.everSuperseded = @ \cup h.accepted]
    ELSE h

\* readEntityDataFromBuffer runs on the call that arrived
Decode ==
    /\ call.op = "decode"
    /\ \E r \in { readEntityDataFromBuffer(e, call.data, call.bytesLeftToRead,
                                           call.args, now, deleted) } :
           /\ e' = r.ent
           /\ last' = [op |-> "decode", outcome |-> r.outcome,
                       bytesRead |-> r.bytesRead, ignored |-> r.ignored,
                       fromSameServerEdit |-> r.fromSameServerEdit,
                       lastEditedFromBuffer |-> r.lastEditedFromBuffer,
                       weOwnSimulation |-> r.weOwnSimulation,
                       extrapolated |-> r.extrapolated,
                       fields |-> r.fields]
           /\ hist' = HistAfterDecode(hist, r)
    /\ call' = NoCall
    /\ UNCHANGED <<now, deleted, peer, packetData, extra, threads, lock>>

\* setProperties runs on the call that arrived
LocalEdit ==
    /\ call.op = "setProperties"
    /\ \E r \in { setProperties(e, call.properties, now) } :
           /\ e' = r.ent
           /\ last' = [op |-> "setProperties", somethingChanged |-> r.somethingChanged]
           /\ hist' = HistAfterEdit(hist, r.ent)
    /\ call' = NoCall
    /\ UNCHANGED <<now, deleted, peer, packetData, extra, threads, lock>>

\* the simulation steps the entity: simulate(now)
Simulate ==
    /\ call.op = "none"
    /\ simulate(e, now).props["PROP_POSITION"] <= MaxPosition
    /\ e' = simulate(e, now)
    /\ e' # e
    /\ UNCHANGED <<now, deleted, call, last, hist, peer, packetData, extra, threads, lock>>

\* the history of the passes over the sender's record: what the first pass
\* was asked for, what was appended since, what was appended a second time, whether every pass
\* had room for the header, whether the last pass completed; a pass is the
\* first when nothing is recorded for the record or the pass before completed
Range(seq) == { seq[i] : i \in 1..Len(seq) }

HistAfterEncode(h, r, first) ==
    [h EXCEPT
        !.asked = IF first THEN r.requested ELSE @,
        !.sent = IF first THEN Range(r.appended) ELSE @ \cup Range(r.appended),
        !.sentTwice = IF first THEN {} ELSE @ \cup (h.sent \cap Range(r.appended)),
        !.headerFitted = (first \/ @) /\ r.headerFits,
        !.completed = r.appendState = "COMPLETED"]

EncodeCall(room) == [op |-> "encode", room |-> room]

\* the sender is asked to append its record to a packet with room bytes left
Request(rooms) ==
    /\ call.op = "none"
    /\ \E room \in rooms : call' = EncodeCall(room)
    /\ UNCHANGED <<now, deleted, e, last, hist, peer, packetData, extra, threads, lock>>

\* appendEntityData runs on the sender's record
Encode ==
    /\ call.op = "encode"
    /\ \E r \in { appendEntityData(peer, call.room, extra) } :
           /\ packetData' = [appendState |-> r.appendState, data |-> r.data,
                             fields |-> r.fields, size |-> r.size]
           /\ extra' = r.entities
           /\ last' = [op |-> "encode", appendState |-> r.appendState,
                       headerFits |-> r.headerFits, requested |-> r.requested]
           /\ hist' = HistAfterEncode(hist, r, peer.id \notin DOMAIN extra \/ hist.completed)
    /\ call' = NoCall
    /\ UNCHANGED <<now, deleted, e, peer, threads, lock>>

\* the caller is done with the element and drops its extra encode data
ForgetExtra ==
    /\ call.op = "none"
    /\ extra # << >>
    /\ extra' = << >>
    /\ UNCHANGED <<now, deleted, e, call, last, hist, peer, packetData, threads, lock>>

\* the sender's record is edited: setProperties on the sender
PeerEdit(calls) ==
    /\ call.op = "none"
    /\ \E c \in calls : peer' = setProperties(peer, c.properties, now).ent
    /\ peer' # peer
    /\ UNCHANGED <<now, deleted, e, call, last, hist, packetData, extra, threads, lock>>

\* the packet the sender wrote reaches the decoder
Deliver ==
    /\ call.op = "none"
    /\ packetData.appendState # "NONE"
    /\ WithinReach(e)
    /\ call' = DecodeCall(packetData.data, PacketBytes(packetData.data),
                          [bitstreamVersion |-> VERSION_CURRENT,
                           sourceUUID |-> OtherNodeID, clockSkew |-> 0])
    /\ UNCHANGED <<now, deleted, e, last, hist, peer, packetData, extra, threads, lock>>

---------------------------------------------------------------------------
(* The calls on the action ledger and on the extrapolator *)

AddActionCall(actionID, action) ==
    [op |-> "addAction", actionID |-> actionID, action |-> action]
UpdateActionCall(actionID, arguments) ==
    [op |-> "updateAction", actionID |-> actionID, arguments |-> arguments]
RemoveActionCall(actionID) == [op |-> "removeAction", actionID |-> actionID]
ClearActionsCall == [op |-> "clearActions"]
SetActionDataCall(actionData) == [op |-> "setActionData", actionData |-> actionData]
DeserializeActionsCall == [op |-> "deserializeActions"]
RecordCreationTimeCall == [op |-> "recordCreationTime"]
AdvanceCall(timeElapsed, setFlags) ==
    [op |-> "simulateKinematicMotion", timeElapsed |-> timeElapsed, setFlags |-> setFlags]

\* a call from the set calls arrives
Ask(calls) ==
    /\ call.op = "none"
    /\ \E c \in calls : call' = c
    /\ UNCHANGED <<now, deleted, e, last, hist, peer, packetData, extra, threads, lock>>

\* the tree element lets the entity go: _element is null again
RemoveFromTree ==
    /\ call.op = "none"
    /\ e.element
    /\ e' = [e EXCEPT !.element = FALSE]
    /\ UNCHANGED <<now, deleted, call, last, hist, peer, packetData, extra, threads, lock>>

\* what the ledger held when the call began, and what the call returned
LedgerLast(ent, c, result) ==
    [op |-> c.op, result |-> result,
     actionID |-> IF "actionID" \in DOMAIN c THEN c.actionID ELSE "",
     held |-> DOMAIN ent.objectActions,
     waiting |-> ent.actionsToRemove,
     remembered |-> DOMAIN ent.previouslyDeletedActions]

\* addAction runs on the call that arrived; the action is a new one of the
\* entity, its id is not in the map
AddAction ==
    /\ call.op = "addAction"
    /\ call.actionID \notin DOMAIN e.objectActions
    /\ \E r \in { addAction(e, call.actionID, call.action, now) } :
           /\ e' = r.ent
           /\ last' = LedgerLast(e, call, r.result)
    /\ call' = NoCall
    /\ UNCHANGED <<now, deleted, hist, peer, packetData, extra, threads, lock>>

\* updateAction runs on the call that arrived
UpdateAction ==
    /\ call.op = "updateAction"
    /\ \E r \in { updateAction(e, call.actionID, call.arguments, now) } :
           /\ e' = r.ent
           /\ last' = LedgerLast(e, call, r.result)
    /\ call' = NoCall
    /\ UNCHANGED <<now, deleted, hist, peer, packetData, extra, threads, lock>>

\* removeAction runs on the call that arrived
RemoveAction ==
    /\ call.op = "removeAction"
    /\ \E r \in { removeAction(e, call.actionID, now) } :
           /\ e' = r.ent
           /\ last' = LedgerLast(e, call, r.result)
    /\ call' = NoCall
    /\ UNCHANGED <<now, deleted, hist, peer, packetData, extra, threads, lock>>

\* clearActions runs on the call that arrived
ClearActions ==
    /\ call.op = "clearActions"
    /\ \E r \in { clearActions(e, now) } :
           /\ e' = r.ent
           /\ last' = LedgerLast(e, call, r.result)
    /\ call' = NoCall
    /\ UNCHANGED <<now, deleted, hist, peer, packetData, extra, threads, lock>>

\* setActionData runs on the call that arrived
SetActionData ==
    /\ call.op = "setActionData"
    /\ e' = setActionData(e, call.actionData, now)
    /\ last' = LedgerLast(e, call, TRUE)
    /\ call' = NoCall
    /\ UNCHANGED <<now, deleted, hist, peer, packetData, extra, threads, lock>>

\* deserializeActions runs on the call that arrived
DeserializeActions ==
    /\ call.op = "deserializeActions"
    /\ e' = deserializeActions(e, now)
    /\ last' = LedgerLast(e, call, TRUE)
    /\ call' = NoCall
    /\ UNCHANGED <<now, deleted, hist, peer, packetData, extra, threads, lock>>

\* recordCreationTime runs on the call that arrived
RecordCreationTime ==
    /\ call.op = "recordCreationTime"
    /\ e' = recordCreationTime(e, now)
    /\ last' = [op |-> "recordCreationTime"]
    /\ call' = NoCall
    /\ UNCHANGED <<now, deleted, hist, peer, packetData, extra, threads, lock>>

\* the transform and its derivatives, and what damps and accelerates them
MotionProps ==
    { "PROP_POSITION", "PROP_ROTATION", "PROP_VELOCITY", "PROP_ANGULAR_VELOCITY",
      "PROP_DAMPING", "PROP_ANGULAR_DAMPING", "PROP_ACCELERATION" }

\* the extrapolator is run until the record is a metre or two radians
\* from where it was constructed
WithinTurn(ent) ==
    /\ ent.props["PROP_POSITION"] < UnitsPerMetre
    /\ ent.props["PROP_ROTATION"] < EPSILON_ANGULAR_VELOCITY_LENGTH * 1000

\* simulateKinematicMotion runs on the call that arrived
Advance ==
    /\ call.op = "simulateKinematicMotion"
    /\ WithinTurn(e)
    /\ e' = simulateKinematicMotion(e, call.timeElapsed, call.setFlags)
    /\ last' = [op |-> call.op, timeElapsed |-> call.timeElapsed,
                hadActions |-> hasActions(e),
                before |-> [p \in MotionProps |-> e.props[p]]]
    /\ call' = NoCall
    /\ UNCHANGED <<now, deleted, hist, peer, packetData, extra, threads, lock>>

---------------------------------------------------------------------------
(* The calls of the specification Spec: packets of every age *)

\* the values a packet of the model carries for a property
WireValue(p) ==
    CASE p \in {"PROP_POSITION", "PROP_VELOCITY"} -> UnitsPerMetre
      [] p \in {"PROP_ROTATION", "PROP_ANGULAR_VELOCITY"} -> 1000
      [] p = "PROP_SIMULATION_OWNER" -> [id |-> OtherNodeID, priority |-> 1]
      [] p = "PROP_ACTION_DATA" -> << >>
      [] OTHER -> 1

RECURSIVE PayloadFrom(_, _, _)
\* the values of the flagged properties, in the order they are appended
PayloadFrom(flags, value, i) ==
    IF i > Len(AppendOrder) THEN << >>
    ELSE IF AppendOrder[i] \in flags
         THEN << value[AppendOrder[i]] >> \o PayloadFrom(flags, value, i + 1)
         ELSE PayloadFrom(flags, value, i + 1)

\* the content of a packet for the entity with the properties of flags
PacketOf(id, lastEdited, created, flags, value) ==
    [id |-> id, type |-> "Box", created |-> created, lastEdited |-> lastEdited,
     updateDelta |-> 0, simulatedDelta |-> 0, flags |-> flags,
     payload |-> PayloadFrom(flags, value, 1)]

Packet(lastEdited, flags) ==
    PacketOf(EntityID, lastEdited, 1, flags, [p \in getEntityProperties |-> WireValue(p)])

ArgsOf(version, source, clockSkew) ==
    [bitstreamVersion |-> version, sourceUUID |-> source, clockSkew |-> clockSkew]

\* a whole packet handed to the decoder
WholePacket(data, clockSkew) ==
    DecodeCall(data, PacketBytes(data), ArgsOf(VERSION_CURRENT, OtherNodeID, clockSkew))

\* the sender's clock is one second behind or one second ahead
ClockSkews == {0 - 1, 1}

\* packets of every age that carry no property
TimingCalls ==
    { WholePacket(Packet(l, {}), k) : l \in 0..(MaxNow + 1), k \in ClockSkews }

\* an old and a new packet with the transform and its derivatives
TerseCalls ==
    { WholePacket(Packet(l, TerseProps), 0) : l \in {1, MaxNow} }

\* fewer bytes than the minimum header, or a version without the header
ShortCalls ==
    { DecodeCall(PacketOf(id, 1, 1, {}, << >>), n, ArgsOf(VERSION_CURRENT, OtherNodeID, 0)) :
        id \in {EntityID, ForeignEntityID}, n \in {0, MINIMUM_HEADER_BYTES - 1} }
    \cup { DecodeCall(PacketOf(ForeignEntityID, 1, 1, {}, << >>), MINIMUM_HEADER_BYTES,
                      ArgsOf(VERSION_BEFORE_SPLIT_MTU, OtherNodeID, 0)) }

EditCalls ==
    { EditCall([changed |-> ch, created |-> UNKNOWN_CREATED_TIME]) :
        ch \in { << >>, [p \in {"PROP_POSITION"} |-> 2 * UnitsPerMetre] } }

Next ==
    \/ Tick
    \/ AddToTree
    \/ MarkDeleted
    \/ Receive(TimingCalls)
    \/ Receive(TerseCalls)
    \/ Receive(ShortCalls)
    \/ Edit(EditCalls)
    \/ Decode
    \/ LocalEdit

Spec == Init /\ [][Next]_vars

---------------------------------------------------------------------------
(* The calls of the specification SpecOwner: packets and edits that claim,
   keep and release the simulation *)

Owners ==
    { [id |-> MyNodeID, priority |-> 1], [id |-> OtherNodeID, priority |-> 2], NoOwner }

OwnerPacket(lastEdited, flags, owner) ==
    PacketOf(EntityID, lastEdited, 1, flags,
             [p \in getEntityProperties |->
                 IF p = "PROP_SIMULATION_OWNER" THEN owner ELSE WireValue(p)])

OwnerCalls ==
    { WholePacket(OwnerPacket(l, {"PROP_SIMULATION_OWNER"}, o), 0) :
        l \in {1, MaxNow}, o \in Owners }
    \cup { WholePacket(OwnerPacket(l, {"PROP_SIMULATION_OWNER", "PROP_POSITION"},
                                   [id |-> MyNodeID, priority |-> 1]), 0) :
             l \in {1, MaxNow} }
    \cup { WholePacket(Packet(l, {"PROP_POSITION", "PROP_VELOCITY"}), 0) :
             l \in {1, MaxNow} }

\* the local peer claims the simulation and pushes the entity
OwnerEditCalls ==
    { EditCall([changed |-> ch, created |-> UNKNOWN_CREATED_TIME]) :
        ch \in { [p \in {"PROP_SIMULATION_OWNER"} |-> [id |-> MyNodeID, priority |-> 1]],
                 [p \in {"PROP_VELOCITY"} |-> UnitsPerMetre] } }

NextOwner ==
    \/ Tick
    \/ ClearDirtyFlags
    \/ Receive(OwnerCalls)
    \/ Edit(OwnerEditCalls)
    \/ Decode
    \/ LocalEdit

SpecOwner == Init /\ [][NextOwner]_vars

---------------------------------------------------------------------------
(* The calls of the specification SpecCodec: a sender's record is appended to
   packets and the packets are decoded, all within one reading of the clock *)

\* the bytes left in the packet: room for some of the properties, room for all
CodecRooms == {120, 400}

\* the sender's record is given a damping, a restitution and a velocity
PeerEditCalls ==
    { EditCall([changed |-> ch, created |-> UNKNOWN_CREATED_TIME]) :
        ch \in { [p \in {"PROP_DAMPING", "PROP_RESTITUTION", "PROP_VELOCITY"} |->
                    CASE p = "PROP_DAMPING" -> 500
                      [] p = "PROP_RESTITUTION" -> 1
                      [] OTHER -> UnitsPerMetre] } }

\* the receiver's record is given a hyperlink
CodecEditCalls ==
    { EditCall([changed |-> ch, created |-> UNKNOWN_CREATED_TIME]) :
        ch \in { [p \in {"PROP_HREF"} |-> 1] } }

NextCodec ==
    \/ PeerEdit(PeerEditCalls)
    \/ Request(CodecRooms)
    \/ Encode
    \/ Deliver
    \/ Decode
    \/ Edit(CodecEditCalls)
    \/ LocalEdit

SpecCodec == Init /\ [][NextCodec]_vars

---------------------------------------------------------------------------
(* The calls of the specification SpecPasses: a sender's record is appended
   in passes to packets of several sizes, all within one reading of the clock *)

\* the bytes left in the packet: less than a header, room for some of the
\* properties, room for all
Rooms == {39, 120, 400}

\* the sender's record is given a name, or a damping and a restitution
PassEditCalls ==
    { EditCall([changed |-> ch, created |-> UNKNOWN_CREATED_TIME]) :
        ch \in { [p \in {"PROP_NAME"} |-> 1],
                 [p \in {"PROP_DAMPING", "PROP_RESTITUTION"} |->
                    IF p = "PROP_DAMPING" THEN 500 ELSE 1] } }

NextPasses ==
    \/ PeerEdit(PassEditCalls)
    \/ Request(Rooms)
    \/ Encode
    \/ ForgetExtra

SpecPasses == Init /\ [][NextPasses]_vars

---------------------------------------------------------------------------
(* The calls of the specification SpecMotion: the record is given a velocity,
   a damping and an acceleration, an action is attached and removed, and the
   extrapolator runs for several elapsed times *)

\* an action of the offset kind with the arguments args, as addAction gets it
NewAction(args) ==
    [type |-> "offset", args |-> args, locallyAddedButNotYetReceived |-> FALSE]

\* the record is given a velocity with half, no or full damping, an
\* acceleration, and an angular velocity
MotionEditCalls ==
    { EditCall([changed |-> ch, created |-> UNKNOWN_CREATED_TIME]) :
        ch \in { [p \in {"PROP_VELOCITY", "PROP_DAMPING"} |->
                    IF p = "PROP_DAMPING" THEN DampingOne \div 2 ELSE UnitsPerMetre],
                 [p \in {"PROP_VELOCITY", "PROP_DAMPING"} |->
                    IF p = "PROP_DAMPING" THEN 0 ELSE UnitsPerMetre],
                 [p \in {"PROP_VELOCITY", "PROP_DAMPING"} |->
                    IF p = "PROP_DAMPING" THEN DampingOne ELSE UnitsPerMetre],
                 [p \in {"PROP_ACCELERATION"} |-> UnitsPerMetre \div 4],
                 [p \in {"PROP_ANGULAR_VELOCITY"} |-> 1000] } }

\* elapsed times in seconds: before the clamp, none, one second, past the clamp
MotionCalls ==
    { AdvanceCall(timeElapsed, setFlags) :
        timeElapsed \in {0 - 1, 0, 1, 2}, setFlags \in BOOLEAN }
    \cup { AddActionCall("A", NewAction(0)), RemoveActionCall("A") }

NextMotion ==
    \/ Edit(MotionEditCalls)
    \/ LocalEdit
    \/ Ask(MotionCalls)
    \/ AddAction
    \/ RemoveAction
    \/ Advance

SpecMotion == Init /\ [][NextMotion]_vars

---------------------------------------------------------------------------
(* The calls of the specification SpecLedger: actions are added, updated and
   removed, action data arrives, the entity enters and leaves the tree *)

\* one serialized action
SerializedAction(type, id, args) == [type |-> type, id |-> id, args |-> args]

\* action data: no action, one action, two actions, an action no factory builds
ActionBlobs ==
    { << >>,
      << SerializedAction("offset", "A", 0) >>,
      << SerializedAction("offset", "B", 0) >>,
      << SerializedAction("offset", "A", 0), SerializedAction("unknown", "B", 0) >> }

LedgerCalls ==
    { AddActionCall(id, NewAction(args)) : id \in ActionIDs, args \in {0, 1} }
    \cup { UpdateActionCall(id, arguments) :
             id \in ActionIDs, arguments \in {1, BadArguments} }
    \cup { RemoveActionCall(id) : id \in ActionIDs }
    \cup { ClearActionsCall, DeserializeActionsCall }
    \cup { SetActionDataCall(actionData) : actionData \in ActionBlobs }

NextLedger ==
    \/ Tick
    \/ AddToTree
    \/ RemoveFromTree
    \/ ClearDirtyFlags
    \/ Ask(LedgerCalls)
    \/ AddAction
    \/ UpdateAction
    \/ RemoveAction
    \/ ClearActions
    \/ SetActionData
    \/ DeserializeActions

SpecLedger == Init /\ [][NextLedger]_vars

---------------------------------------------------------------------------
(* The record lock: two threads call the ledger's mutators and readers. A
   call is split where the lock is taken and where it is released; the body
   of a call that holds the lock is one step *)

GetActionDataCall == [op |-> "getActionData"]
GetActionArgumentsCall(actionID) == [op |-> "getActionArguments", actionID |-> actionID]
ShouldSuppressLocationEditsCall == [op |-> "shouldSuppressLocationEdits"]
GetActionsOfTypeCall(typeToGet) == [op |-> "getActionsOfType", typeToGet |-> typeToGet]

\* the functions that wrap their body in withWriteLock
Mutators ==
    { "addAction", "updateAction", "removeAction", "clearActions",
      "setActionData", "deserializeActions" }

\* the functions that read the action map or _actionDataDirty before they
\* take any lock, or without taking one
ReadsUnlocked == { "getActionData", "shouldSuppressLocationEdits", "getActionsOfType" }

\* a call that takes the read lock although it changes the arguments
takesWriteLockExceptUpdate(c) ==
    \/ c.op \in Mutators \ {"updateAction"}
    \/ c.op = "getActionData" /\ c.dirty

\* the call takes withWriteLock; the others that lock take withReadLock
takesWriteLock(c) ==
    \/ c.op \in Mutators
    \/ c.op = "getActionData" /\ c.dirty

\* getActionArguments(actionID): the body under the read lock
getActionArguments(ent, actionID) ==
    IF actionID \in DOMAIN ent.objectActions
    THEN << ent.objectActions[actionID].type, ent.objectActions[actionID].args >>
    ELSE << >>

\* getActionsOfType(typeToGet): the loop over _objectActions
getActionsOfType(ent, typeToGet) ==
    { id \in DOMAIN ent.objectActions : ent.objectActions[id].type = typeToGet }

\* the body of the call c, run at clock reading t by a thread that holds the
\* lock
LockedBody(ent, c, t) ==
    CASE c.op = "addAction" -> addAction(ent, c.actionID, c.action, t)
      [] c.op = "updateAction" -> updateAction(ent, c.actionID, c.arguments, t)
      [] c.op = "removeAction" -> removeAction(ent, c.actionID, t)
      [] c.op = "clearActions" -> clearActions(ent, t)
      [] c.op = "setActionData" ->
           [ent |-> setActionData(ent, c.actionData, t), result |-> TRUE]
      [] c.op = "deserializeActions" ->
           [ent |-> deserializeActions(ent, t), result |-> TRUE]
      [] c.op = "getActionData" ->
           IF c.dirty
           THEN LET got == getActionDataInternal(ent)
                IN  [ent |-> got, result |-> got.allActionsDataCache]
           ELSE [ent |-> ent, result |-> ent.allActionsDataCache]
      [] c.op = "getActionArguments" ->
           [ent |-> ent, result |-> getActionArguments(ent, c.actionID)]

\* what a read without the lock can give: the value of the map it finds, or,
\* when a mutator ran while it was reading, anything
UnlockedRead(ent, c, raced) ==
    CASE c.op = "shouldSuppressLocationEdits" ->
           IF raced THEN BOOLEAN ELSE { shouldSuppressLocationEdits(ent) }
      [] c.op = "getActionsOfType" ->
           IF raced THEN SUBSET ActionIDs ELSE { getActionsOfType(ent, c.typeToGet) }
      [] c.op = "getActionData" ->
           IF raced THEN BOOLEAN ELSE { ent.actionDataDirty }

\* the thread th makes a call of the set calls; the action of an addAction
\* call is a new one, no other call adds it
Invoke(th, calls) ==
    /\ threads[th].at = "idle"
    /\ \E c \in calls :
         /\ c.op = "addAction" =>
              /\ c.actionID \notin DOMAIN e.objectActions
              /\ \A o \in Threads \ {th} :
                     threads[o].at # "idle" /\ threads[o].call.op = "addAction"
                         => threads[o].call.actionID # c.actionID
         /\ threads' = [threads EXCEPT ![th] =
                          IF c.op \in ReadsUnlocked
                          THEN [at |-> "reading", call |-> c, raced |-> FALSE]
                          ELSE [at |-> "waiting", call |-> c]]
    /\ UNCHANGED <<now, deleted, e, call, last, hist, peer, packetData, extra, lock>>

\* if (_actionDataDirty) in getActionData, read before any lock is taken
DirtyCheck(th) ==
    /\ threads[th].at = "reading"
    /\ threads[th].call.op = "getActionData"
    /\ \E dirty \in UnlockedRead(e, threads[th].call, threads[th].raced) :
           threads' = [threads EXCEPT ![th] =
                          [at |-> "waiting",
                           call |-> [op |-> "getActionData", dirty |-> dirty]]]
    /\ UNCHANGED <<now, deleted, e, call, last, hist, peer, packetData, extra, lock>>

\* shouldSuppressLocationEdits and getActionsOfType return what their loop
\* over the map found
ReadWithoutLock(th) ==
    /\ threads[th].at = "reading"
    /\ threads[th].call.op # "getActionData"
    /\ \E result \in UnlockedRead(e, threads[th].call, threads[th].raced) :
           last' = [op |-> threads[th].call.op, result |-> result]
    /\ threads' = [threads EXCEPT ![th] = Idle]
    /\ UNCHANGED <<now, deleted, e, call, hist, peer, packetData, extra, lock>>

\* withWriteLock: the thread gets the lock when nobody holds it
withWriteLock(th) ==
    /\ threads[th].at = "waiting"
    /\ takesWriteLock(threads[th].call)
    /\ lock = Unlocked
    /\ lock' = [lock EXCEPT !.writer = th]
    /\ threads' = [threads EXCEPT ![th].at = "inside"]
    /\ UNCHANGED <<now, deleted, e, call, last, hist, peer, packetData, extra>>

\* withReadLock: the thread gets the lock when no writer holds it
withReadLock(th) ==
    /\ threads[th].at = "waiting"
    /\ ~ takesWriteLock(threads[th].call)
    /\ lock.writer = NoThread
    /\ lock' = [lock EXCEPT !.readers = @ \cup {th}]
    /\ threads' = [threads EXCEPT ![th].at = "inside"]
    /\ UNCHANGED <<now, deleted, e, call, last, hist, peer, packetData, extra>>

\* the body of the call runs; a thread that is reading without the lock has
\* raced with it when the body is a mutator's
RunBody(th) ==
    /\ threads[th].at = "inside"
    /\ \E r \in { LockedBody(e, threads[th].call, now) } :
         /\ e' = r.ent
         /\ threads' =
              [o \in Threads |->
                 IF o = th
                 THEN [at |-> "leaving", call |-> threads[th].call, result |-> r.result]
                 ELSE IF threads[o].at = "reading" /\ threads[th].call.op \in Mutators
                      THEN [threads[o] EXCEPT !.raced = TRUE]
                      ELSE threads[o]]
    /\ UNCHANGED <<now, deleted, call, last, hist, peer, packetData, extra, lock>>

\* the lambda has returned, by its last statement or by a return inside it:
\* the lock is released and the call returns
Release(th) ==
    /\ threads[th].at = "leaving"
    /\ lock' = [writer |-> IF lock.writer = th THEN NoThread ELSE lock.writer,
                readers |-> lock.readers \ {th}]
    /\ last' = [op |-> threads[th].call.op, result |-> threads[th].result]
    /\ threads' = [threads EXCEPT ![th] = Idle]
    /\ UNCHANGED <<now, deleted, e, call, hist, peer, packetData, extra>>

\* the calls of the specification SpecLocks: A is added and removed, B is
\* added when the two no longer fit, B is updated when it is not there,
\* action data arrives, and the readers are called
LockCalls ==
    { AddActionCall("A", NewAction(1)), AddActionCall("B", NewAction(1)),
      UpdateActionCall("B", 0),
      RemoveActionCall("A"), ClearActionsCall, DeserializeActionsCall,
      SetActionDataCall(<< SerializedAction("offset", "B", 0) >>),
      GetActionDataCall, GetActionArgumentsCall("A"),
      ShouldSuppressLocationEditsCall, GetActionsOfTypeCall("offset") }

NextLocks ==
    \/ AddToTree
    \/ \E th \in Threads :
         \/ Invoke(th, LockCalls)
         \/ DirtyCheck(th)
         \/ ReadWithoutLock(th)
         \/ withWriteLock(th)
         \/ withReadLock(th)
         \/ RunBody(th)
         \/ Release(th)

SpecLocks == Init /\ [][NextLocks]_vars

---------------------------------------------------------------------------
(* The calls of the specification SpecRecord: packets that carry this or
   another entity's id and any creation time arrive, the creation time is
   edited, and the creation time is recorded *)

\* creation times: unknown, in the past, the latest clock reading, ahead of it
CreatedTimes == {UNKNOWN_CREATED_TIME, 1, MaxNow, MaxNow + 2}

\* packets without properties from a sender with either id
RecordCalls ==
    { WholePacket(PacketOf(id, l, created, {}, << >>), k) :
        id \in {EntityID, ForeignEntityID}, l \in {0, MaxNow + 1},
        created \in CreatedTimes, k \in ClockSkews }

\* properties.setCreated(created) marks the creation time changed; the
\* position is changed with or without it
CreatedEditCalls ==
    { EditCall([changed |-> [p \in {"PROP_CREATED"} |-> created], created |-> created]) :
        created \in CreatedTimes }
    \cup { EditCall([changed |-> [p \in {"PROP_POSITION"} |-> UnitsPerMetre],
                     created |-> created]) : created \in CreatedTimes }

NextRecord ==
    \/ Tick
    \/ Receive(RecordCalls)
    \/ Receive(ShortCalls)
    \/ Edit(CreatedEditCalls)
    \/ Ask({RecordCreationTimeCall})
    \/ Decode
    \/ LocalEdit
    \/ RecordCreationTime

SpecRecord == Init /\ [][NextRecord]_vars

---------------------------------------------------------------------------
(* The calls of the specification SpecTombstones: two actions are added and
   removed and action data arrives, before and after the time for which a
   removal is remembered has passed *)

\* the clock advances by the time a removed action is remembered
Wait ==
    /\ call.op = "none"
    /\ now <= MaxNow
    /\ now' = now + rememberDeletedActionTime
    /\ UNCHANGED <<deleted, e, call, last, hist, peer, packetData, extra, threads, lock>>

\* action data from the server: no action, A, B, B with other arguments, both
TombstoneBlobs ==
    { << >>,
      << SerializedAction("offset", "A", 0) >>,
      << SerializedAction("offset", "B", 0) >>,
      << SerializedAction("offset", "B", 1) >>,
      << SerializedAction("offset", "A", 0), SerializedAction("offset", "B", 0) >> }

TombstoneCalls ==
    { AddActionCall(id, NewAction(0)) : id \in ActionIDs }
    \cup { RemoveActionCall(id) : id \in ActionIDs }
    \cup { SetActionDataCall(actionData) : actionData \in TombstoneBlobs }

NextTombstones ==
    \/ Tick
    \/ Wait
    \/ AddToTree
    \/ Ask(TombstoneCalls)
    \/ AddAction
    \/ RemoveAction
    \/ SetActionData

SpecTombstones == Init /\ [][NextTombstones]_vars

---------------------------------------------------------------------------
(* Steps and expressions the properties are stated in *)

\* a step in which the decoder runs on the call that arrived
DecodeStep == call.op = "decode" /\ call' = NoCall

\* a decode step that reads the header: neither too short nor too old a version
ReadStep == DecodeStep /\ last'.outcome = "read"

\* remoteLastEdited - clockSkew as a 64-bit unsigned number, at most now
lastEditedAdjusted == Min(SubU64(call.data.lastEdited, call.args.clockSkew), now)

\* the packet that arrived carries the edit the record took last
sameServerEdit == call.data.lastEdited = e.lastEditedFromRemoteInRemoteTime

knownDeleted == e.element /\ e.id \in deleted

TerseUnchanged == \A p \in TerseProps : e'.props[p] = e.props[p]

---------------------------------------------------------------------------
(* C1: a packet that is read is ignored if and only if the entity is
   known-deleted in its tree, or the packet is from the same server edit and
   lastEdited > lastEditedFromRemote, or it is from another edit and
   lastEdited > lastEditedAdjusted; equal time stamps are accepted *)
C1_IgnoredIff ==
    [][ReadStep =>
          (last'.ignored <=>
              \/ knownDeleted
              \/ sameServerEdit /\ e.lastEdited > e.lastEditedFromRemote
              \/ ~ sameServerEdit /\ e.lastEdited > lastEditedAdjusted)]_vars

\* a packet of another server edit was ignored for its age alone, and a packet
\* whose adjusted edit time equals lastEdited is waiting
C1_Witness ==
    /\ last.op = "decode" /\ last.outcome = "read"
    /\ last.ignored /\ ~ last.fromSameServerEdit
    /\ ~ knownDeleted
    /\ call.op = "decode" /\ call.bytesLeftToRead >= MINIMUM_HEADER_BYTES
    /\ ~ sameServerEdit /\ lastEditedAdjusted = e.lastEdited

---------------------------------------------------------------------------
(* C2: a decode of a packet that is not from the same server edit and whose
   lastEditedAdjusted is below lastEdited leaves position, rotation, velocity,
   angular velocity and acceleration as they were, runs no extrapolation and
   leaves lastEdited, lastUpdated, lastSimulated, lastEditedFromRemote and
   lastEditedFromRemoteInRemoteTime as they were *)
C2_StaleIgnore ==
    [][ReadStep /\ ~ sameServerEdit /\ lastEditedAdjusted < e.lastEdited =>
          /\ TerseUnchanged
          /\ ~ last'.extrapolated
          /\ e'.lastEdited = e.lastEdited
          /\ e'.lastUpdated = e.lastUpdated
          /\ e'.lastSimulated = e.lastSimulated
          /\ e'.lastEditedFromRemote = e.lastEditedFromRemote
          /\ e'.lastEditedFromRemoteInRemoteTime = e.lastEditedFromRemoteInRemoteTime]_vars

\* a stale packet with the transform and its derivatives was decoded while the
\* record was moving, had dirty transform bits and held another position
C2_Witness ==
    /\ last.op = "decode" /\ last.outcome = "read"
    /\ last.ignored /\ ~ last.fromSameServerEdit
    /\ ~ knownDeleted
    /\ last.bytesRead = PacketBytes(Packet(1, TerseProps))
    /\ e.props["PROP_VELOCITY"] # 0
    /\ e.props["PROP_POSITION"] # WireValue("PROP_POSITION")
    /\ getDirtyFlags(e) \cap (DIRTY_TRANSFORM \cup DIRTY_VELOCITIES) # {}

---------------------------------------------------------------------------
(* C3, as far as it holds: while the entity is not known-deleted, a packet
   with the remoteLastEdited of the packet accepted last is accepted as long
   as no local edit has made lastEdited greater than lastEditedFromRemote
   since, and is ignored once a local edit has, until another packet is
   accepted *)
C3_SameEditDedup ==
    [][ReadStep =>
          /\ ( /\ call.data.lastEdited \in hist.accepted
               /\ hist.superseded = {}
               /\ ~ knownDeleted ) => ~ last'.ignored
          /\ call.data.lastEdited \in hist.superseded => last'.ignored]_vars

\* a packet was accepted, a local edit made lastEdited greater than
\* lastEditedFromRemote, and a packet with the same remoteLastEdited was ignored
C3_Witness ==
    /\ last.op = "decode" /\ last.outcome = "read"
    /\ last.ignored /\ last.fromSameServerEdit
    /\ last.lastEditedFromBuffer \in hist.superseded
    /\ e.lastEdited > e.lastEditedFromRemote
    /\ ~ knownDeleted

(* C3 as the specification states it: of two packets decoded one after the
   other with the same remoteLastEdited, while lastEdited has not advanced
   past lastEditedFromRemote, both are accepted; a packet whose
   remoteLastEdited was once superseded by a local edit is ignored ever after *)
C3_AsStated ==
    [][ReadStep =>
          /\ ( /\ last.op = "decode" /\ last.outcome = "read"
               /\ last.lastEditedFromBuffer = call.data.lastEdited
               /\ e.lastEdited <= e.lastEditedFromRemote )
                 => ~ last.ignored /\ ~ last'.ignored
          /\ call.data.lastEdited \in hist.everSuperseded => last'.ignored]_vars

---------------------------------------------------------------------------
(* C6: after a decode that is not ignored, lastEdited is the smaller of
   remoteLastEdited - clockSkew (64-bit unsigned) and now, lastEditedFromRemote
   is now and lastEditedFromRemoteInRemoteTime is remoteLastEdited; lastEdited
   does not exceed now *)
C6_AcceptedStamps ==
    [][ReadStep /\ ~ last'.ignored =>
          /\ e'.lastEdited = lastEditedAdjusted
          /\ e'.lastEdited <= now
          /\ e'.lastEditedFromRemote = now
          /\ e'.lastEditedFromRemoteInRemoteTime = call.data.lastEdited]_vars

\* a packet with remoteLastEdited 0 from a sender one second ahead was
\* accepted: the subtraction wrapped around and the clamp gave now
C6_Witness ==
    /\ last.op = "decode" /\ last.outcome = "read" /\ ~ last.ignored
    /\ last.lastEditedFromBuffer = 0
    /\ now = MaxNow
    /\ e.lastEditedFromRemote = now
    /\ e.lastEdited = now
    /\ e.lastEditedFromRemoteInRemoteTime = 0

---------------------------------------------------------------------------
(* C7 as the specification states it: a decode with fewer than 27 bytes
   returns 0 and leaves every field of the record as it was *)
C7_TruncatedUntouched ==
    [][DecodeStep /\ call.bytesLeftToRead < MINIMUM_HEADER_BYTES =>
          /\ last'.bytesRead = 0
          /\ e' = e]_vars

---------------------------------------------------------------------------
(* C4: after a decode of a packet whose flags include the simulation owner,
   accepted or ignored, the record's owner and priority are the packet's, and
   the decode sets the dirty bit of the simulator id exactly when the pair
   differs from the one the record had *)
C4_OwnerFromNetwork ==
    [][ReadStep /\ "PROP_SIMULATION_OWNER" \in call.data.flags =>
          /\ e'.simulationOwner = call.data.payload[1]
          /\ "DIRTY_SIMULATOR_ID" \in e'.dirtyFlags
               <=> \/ "DIRTY_SIMULATOR_ID" \in e.dirtyFlags
                   \/ e.simulationOwner # call.data.payload[1]]_vars

\* an ignored packet took the simulation from the local peer
C4_Witness ==
    /\ last.op = "decode" /\ last.outcome = "read"
    /\ last.ignored /\ last.weOwnSimulation
    /\ e.simulationOwner = [id |-> OtherNodeID, priority |-> 2]
    /\ "DIRTY_SIMULATOR_ID" \in e.dirtyFlags

---------------------------------------------------------------------------
(* C5 as the specification states it: while the local peer owns the
   simulation, a decode that does not change the owner leaves position,
   rotation, velocity, angular velocity and acceleration as they were *)
C5_SelfOwnedFrame ==
    [][( /\ ReadStep
         /\ matchesValidID(e.simulationOwner, MyNodeID)
         /\ e'.simulationOwner = e.simulationOwner ) => TerseUnchanged]_vars

---------------------------------------------------------------------------
(* Expressions about packets the sender wrote *)

\* a step in which appendEntityData runs on the call that arrived
EncodeStep == call.op = "encode" /\ call' = NoCall

\* the place of the flagged property p in the payload of a packet
PayloadIndex(data, p) ==
    Cardinality({ q \in data.flags : IndexIn(AppendOrder, q) <= IndexIn(AppendOrder, p) })

\* the value the packet carries for the flagged property p
CarriedValue(data, p) == data.payload[PayloadIndex(data, p)]

\* the properties among the fields of a packet
PropertiesOf(fields) == Range(fields) \cap getEntityProperties

\* the stage of a decode a field belongs to
FieldStage(f) ==
    CASE f \in Range(HeaderReadOrder) -> 0
      [] f = "PROP_SIMULATION_OWNER" -> 1
      [] f \in TerseProps -> 2
      [] f = "SUBCLASS" -> 4
      [] OTHER -> 3

---------------------------------------------------------------------------
(* C8 as the specification states it: when a packet the sender wrote is
   accepted by a receiver that does not own the simulation, every flagged
   property of the receiver equals the value the packet carries and every
   property that is not flagged is as it was *)
C8_RoundTrip ==
    [][ReadStep /\ ~ last'.ignored /\ ~ last'.weOwnSimulation =>
          \A p \in getEntityProperties :
              IF p \in call.data.flags
              THEN AppendedValue(e', p) = CarriedValue(call.data, p)
              ELSE AppendedValue(e', p) = AppendedValue(e, p)]_vars

---------------------------------------------------------------------------
(* C9: the decoder parses the header fields and then the payloads of the
   flagged properties in the order the encoder appended them, the subclass
   data last; the simulation owner comes before the transform and the
   velocities, these before every other property, these before the subclass
   data *)
C9_SharedFieldOrder ==
    [][ReadStep =>
          /\ last'.fields = packetData.fields
          /\ \A i, j \in 1..Len(last'.fields) :
                 i < j => FieldStage(last'.fields[i]) <= FieldStage(last'.fields[j])]_vars

\* a packet that holds a part of the properties, among them the simulation
\* owner, the velocity and the density, was decoded
C9_Witness ==
    /\ last.op = "decode" /\ last.outcome = "read"
    /\ last.fields = packetData.fields
    /\ {"PROP_SIMULATION_OWNER", "PROP_VELOCITY", "PROP_DENSITY"}
         \subseteq PropertiesOf(last.fields)
    /\ last.fields[Len(last.fields)] = "SUBCLASS"
    /\ packetData.appendState = "PARTIAL"

---------------------------------------------------------------------------
(* C10: when appendEntityData returns PARTIAL, the property flags written are
   exactly the properties whose payloads were appended, and the set recorded
   for the next pass is exactly the requested properties without those
   appended, which is a smaller set than the requested one; over the passes
   for one record, as long as every pass had room for the header, no property
   is appended twice, and when a pass completes every property the first
   pass was asked for has been appended *)
C10_PartialPasses ==
    /\ [][EncodeStep /\ last'.appendState = "PARTIAL" =>
            /\ packetData'.data.flags = PropertiesOf(packetData'.fields)
            /\ Len(packetData'.data.payload) = Cardinality(packetData'.data.flags)
            /\ peer.id \in DOMAIN extra'
            /\ extra'[peer.id] = last'.requested \ PropertiesOf(packetData'.fields)
            /\ extra'[peer.id] # last'.requested]_vars
    /\ [](hist.headerFitted =>
            /\ hist.sentTwice = {}
            /\ hist.completed => hist.sent = hist.asked)

\* a second pass returned PARTIAL after a first one that did, every pass with
\* room for the header
C10_Witness ==
    /\ last.op = "encode" /\ last.appendState = "PARTIAL"
    /\ hist.headerFitted
    /\ last.requested # getEntityProperties
    /\ hist.sent # PropertiesOf(packetData.fields)
    /\ extra[peer.id] # {}

\* the passes went on until one completed
C10_Completed ==
    /\ last.op = "encode" /\ last.appendState = "COMPLETED"
    /\ last.requested # getEntityProperties
    /\ hist.headerFitted /\ hist.completed

---------------------------------------------------------------------------
(* Expressions about one pass of the encoder *)

\* the properties the pass is asked for, as the caller's record has them
AskedFor == IF peer.id \in DOMAIN extra THEN extra[peer.id] ELSE getEntityProperties

\* the properties among the fields of a packet, in the order they were appended
AppendedSeq(fields) == SelectSeq(fields, LAMBDA f : f \in getEntityProperties)

\* the declared order restricted to the properties of the set props
DeclaredOrderOf(props) == SelectSeq(AppendOrder, LAMBDA p : p \in props)

RECURSIVE BytesOf(_, _)
\* the bytes the payloads of the properties props of the record ent occupy
BytesOf(ent, props) ==
    IF props = {} THEN 0
    ELSE LET p == CHOOSE q \in props : TRUE
         IN  PayloadBytes(p, AppendedValue(ent, p)) + BytesOf(ent, props \ {p})

\* the room left in the packet when the turn of property p comes, given the
\* properties that were appended in the pass
RoomAtTurn(p, appended) ==
    call.room - HeaderBytes(FirstHeader(peer))
      - BytesOf(peer, { q \in appended : IndexIn(AppendOrder, q) < IndexIn(AppendOrder, p) })

\* a requested property was left out and a later one was appended
AppendedPastAGap(requested, appended) ==
    \E p \in requested \ appended, q \in appended :
        IndexIn(AppendOrder, p) < IndexIn(AppendOrder, q)

---------------------------------------------------------------------------
(* C11 as the specification states it: the properties appended in one pass are
   a prefix of the requested properties in declared order *)
C11_TailDropping ==
    [][EncodeStep =>
          \E n \in 0..Len(DeclaredOrderOf(AskedFor)) :
              AppendedSeq(packetData'.fields) = SubSeq(DeclaredOrderOf(AskedFor), 1, n)]_vars

(* C11, as far as it holds: the properties appended in one pass are, in
   declared order, exactly the requested properties whose payload fits in the
   room left when their turn comes; a property that does not fit is left out
   and the pass goes on to the properties after it *)
C11_InOrderWhatFits ==
    [][EncodeStep /\ last'.headerFits =>
          /\ AppendedSeq(packetData'.fields)
               = DeclaredOrderOf(PropertiesOf(packetData'.fields))
          /\ PropertiesOf(packetData'.fields) \subseteq AskedFor
          /\ \A p \in AskedFor :
                 p \in PropertiesOf(packetData'.fields)
                   <=> PayloadBytes(p, AppendedValue(peer, p))
                         <= RoomAtTurn(p, PropertiesOf(packetData'.fields))]_vars

\* a pass that was asked for what an earlier pass left returned PARTIAL, and
\* appended a property that comes after one that did not fit
C11_Witness ==
    /\ last.op = "encode" /\ last.appendState = "PARTIAL"
    /\ last.requested # getEntityProperties
    /\ AppendedPastAGap(last.requested, PropertiesOf(packetData.fields))

---------------------------------------------------------------------------
(* C12 *)

\* the pass found no room for the whole header
HeaderDoesNotFit == HeaderBytes(FirstHeader(peer)) > call.room

\* C12: an encode pass returns NONE whenever the header does not fit in the
\* room the packet has left, and after every pass that returns NONE nothing
\* the pass appended is left in the packet: no field and no byte
C12_NoneDiscards ==
    [][EncodeStep =>
          /\ HeaderDoesNotFit => packetData'.appendState = "NONE"
          /\ last'.headerFits = ~HeaderDoesNotFit
          /\ packetData'.appendState = "NONE" =>
                /\ packetData'.fields = << >>
                /\ packetData'.size = 0
          /\ packetData'.appendState # "NONE" =>
                packetData'.size = PacketBytes(packetData'.data)]_vars

\* a pass had room for the object ID but not for the whole header, and
\* returned NONE
C12_Witness ==
    /\ last.op = "encode"
    /\ ~last.headerFits
    /\ packetData.appendState = "NONE"
    /\ \E room \in Rooms :
          /\ NUM_BYTES_RFC4122_UUID <= room
          /\ room < HeaderBytes(FirstHeader(peer))

---------------------------------------------------------------------------
(* C13, C14 *)

AdvanceStep == call.op = "simulateKinematicMotion" /\ call' = NoCall

\* the transform and its derivatives
TransformProps ==
    { "PROP_POSITION", "PROP_ROTATION", "PROP_VELOCITY", "PROP_ANGULAR_VELOCITY" }

\* C13: whenever the entity has at least one action, simulateKinematicMotion
\* leaves the position, the rotation, the velocity, the angular velocity and
\* the dirty flags as they were, whatever the elapsed time
C13_NoOpWithActions ==
    [][AdvanceStep /\ hasActions(e) =>
          /\ \A p \in TransformProps : e'.props[p] = e.props[p]
          /\ e'.dirtyFlags = e.dirtyFlags]_vars

\* the extrapolator ran for a second on a moving, turning entity that had an
\* action
C13_Witness ==
    /\ last.op = "simulateKinematicMotion"
    /\ last.hadActions
    /\ last.timeElapsed >= 1
    /\ last.before["PROP_VELOCITY"] # 0
    /\ last.before["PROP_ANGULAR_VELOCITY"] # 0
    /\ hasActions(e)

\* C14: for an entity without actions, with a velocity of one metre per
\* second, a damping of one half and no acceleration, one second of
\* extrapolation gives a velocity of half a metre per second and moves the
\* position by half a metre; in general the velocity is damped first, the
\* position is integrated with the damped velocity, and the acceleration is
\* added to the velocity after that
C14_DampedThenIntegrated ==
    [][AdvanceStep /\ ~ hasActions(e) /\ call.timeElapsed = 1
         /\ e.props["PROP_VELOCITY"] = UnitsPerMetre
         /\ e.props["PROP_DAMPING"] = DampingOne \div 2 =>
          /\ e'.props["PROP_POSITION"]
               = e.props["PROP_POSITION"] + UnitsPerMetre \div 2
          /\ e'.props["PROP_VELOCITY"]
               = UnitsPerMetre \div 2 + e.props["PROP_ACCELERATION"]
          /\ e.props["PROP_ACCELERATION"] = 0 =>
                e'.props["PROP_VELOCITY"] = UnitsPerMetre \div 2]_vars

\* the extrapolator ran for a second on an entity without actions that had a
\* velocity of one metre per second, a damping of one half and no
\* acceleration
C14_Witness ==
    /\ last.op = "simulateKinematicMotion"
    /\ ~ last.hadActions
    /\ last.timeElapsed = 1
    /\ last.before["PROP_VELOCITY"] = UnitsPerMetre
    /\ last.before["PROP_DAMPING"] = DampingOne \div 2
    /\ last.before["PROP_ACCELERATION"] = 0
    /\ e.props["PROP_VELOCITY"] = UnitsPerMetre \div 2
    /\ e.props["PROP_POSITION"] = last.before["PROP_POSITION"] + UnitsPerMetre \div 2

---------------------------------------------------------------------------
(* C15 .. C20: the action ledger *)

AddStep == call.op = "addAction" /\ call' = NoCall
UpdateStep == call.op = "updateAction" /\ call' = NoCall
RemoveStep == call.op = "removeAction" /\ call' = NoCall
ClearStep == call.op = "clearActions" /\ call' = NoCall
SetDataStep == call.op = "setActionData" /\ call' = NoCall

\* the action map, the serialized cache, the remembered deletions and the
\* dirty flags are after the step what they were before it
LedgerUnchanged ==
    /\ e'.objectActions = e.objectActions
    /\ e'.allActionsDataCache = e.allActionsDataCache
    /\ e'.previouslyDeletedActions = e.previouslyDeletedActions
    /\ e'.dirtyFlags = e.dirtyFlags

\* C15: when addAction fails because the serialized actions reach the
\* maximum size, it returns false and the action map, the serialized cache,
\* the remembered deletions and the dirty flags are what they were before the
\* call (stated for calls that find no removal waiting)
C15_OverflowRollback ==
    [][AddStep /\ e.actionsToRemove = {} /\ ~ last'.result => LedgerUnchanged]_vars

\* C16: when updateAction changes the arguments of an action so that the
\* serialized actions reach the maximum size, it returns false and the
\* arguments of the action and the serialized cache are what they were before
\* the call (stated for calls that find no removal waiting)
C16_UpdateRollback ==
    [][UpdateStep /\ e.actionsToRemove = {}
         /\ call.actionID \in DOMAIN e.objectActions
         /\ BlobBytes(SerializeFrom(
              [e.objectActions EXCEPT ![call.actionID] =
                 updateArguments(@, call.arguments).action], 1)) >= maxActionsDataSize =>
          /\ ~ last'.result
          /\ e'.objectActions[call.actionID].args = e.objectActions[call.actionID].args
          /\ e'.allActionsDataCache = e.allActionsDataCache]_vars

\* C17 as stated: updateAction with an id that is not in the action map
\* returns false and changes nothing, whatever removals are waiting
C17_AsStated ==
    [][UpdateStep /\ call.actionID \notin DOMAIN e.objectActions =>
          ~ last'.result /\ LedgerUnchanged]_vars

\* C17: updateAction with an id that is not in the action map returns false;
\* it changes nothing when no removal is waiting; the removals that wait are
\* carried out by the call: those actions leave the map, their deletion is
\* remembered with the time of the call, and nothing waits any more
C17_UnknownIdAfterWaiting ==
    [][UpdateStep /\ call.actionID \notin DOMAIN e.objectActions =>
          /\ ~ last'.result
          /\ e.actionsToRemove = {} => LedgerUnchanged
          /\ e'.actionsToRemove = {}
          /\ DOMAIN e'.objectActions = DOMAIN e.objectActions \ e.actionsToRemove
          /\ \A id \in DOMAIN e'.objectActions :
                 e'.objectActions[id] = e.objectActions[id]
          /\ \A id \in e.actionsToRemove :
                 /\ id \in DOMAIN e'.previouslyDeletedActions
                 /\ e'.previouslyDeletedActions[id] = now]_vars

\* updateAction was called with an id that was not in the map while a
\* removal was waiting, and once more when none was
C17_Witness ==
    /\ last.op = "updateAction"
    /\ last.actionID \notin last.held
    /\ last.waiting # {}
    /\ last.held # {}
    /\ ~ last.result
    /\ e.actionsToRemove = {}

\* C18: removeAction(id) for an id in the action map returns true, and after
\* it the id is not in the map, its deletion is remembered with the time of
\* the call, and the serialized cache is the serialization of the actions
\* that remain, empty when none remains
C18_RemoveReturnsTrue ==
    [][RemoveStep /\ call.actionID \in DOMAIN e.objectActions =>
          /\ last'.result
          /\ call.actionID \notin DOMAIN e'.objectActions
          /\ call.actionID \in DOMAIN e'.previouslyDeletedActions
          /\ e'.previouslyDeletedActions[call.actionID] = now
          /\ e'.allActionsDataCache = SerializeFrom(e'.objectActions, 1)]_vars

\* C19: after clearActions the action map is empty, the serialized cache is
\* empty, no removal waits, and the call has remembered no deletion: the
\* remembered deletions are what they were before the call
C19_ClearLeavesNoTombstone ==
    [][ClearStep =>
          /\ last'.result
          /\ e'.objectActions = << >>
          /\ e'.allActionsDataCache = << >>
          /\ e'.actionsToRemove = {}
          /\ e'.previouslyDeletedActions = e.previouslyDeletedActions]_vars

\* clearActions was called while the entity held an action and a removal was
\* waiting
C19_Witness ==
    /\ last.op = "clearActions"
    /\ last.held # {}
    /\ last.waiting # {}
    /\ e.objectActions = << >>

\* the ids the action data mentions
MentionedIn(actionData) == { actionData[i].id : i \in 1..Len(actionData) }

\* the mentioned ids whose deletion is not remembered and whose action is
\* held already or can be built by the factory
Reconcilable(ent, actionData) ==
    { actionData[i].id : i \in
        { j \in 1..Len(actionData) :
            /\ actionData[j].id \notin DOMAIN ent.previouslyDeletedActions
            /\ \/ actionData[j].id \in DOMAIN ent.objectActions
               \/ actionData[j].type # "unknown" } }

\* the held ids the action data does not mention that were added here and
\* not yet received
KeptAsLocal(ent, actionData) ==
    { id \in DOMAIN ent.objectActions \ MentionedIn(actionData) :
        ent.objectActions[id].locallyAddedButNotYetReceived }

\* C20: after setActionData on an entity that is in a tree, the action map
\* holds exactly the mentioned ids that were not remembered as deleted and
\* could be updated or built, and the held ids that are not mentioned and are
\* flagged as added here and not yet received; every other id that was held
\* has been removed and its deletion is remembered
C20_Reconciliation ==
    [][SetDataStep /\ e.element =>
          /\ DOMAIN e'.objectActions
               = Reconcilable(e, call.actionData) \cup KeptAsLocal(e, call.actionData)
          /\ \A id \in DOMAIN e.objectActions
                        \ (Reconcilable(e, call.actionData)
                             \cup KeptAsLocal(e, call.actionData)) :
                 /\ id \notin DOMAIN e'.objectActions
                 /\ id \in DOMAIN e'.previouslyDeletedActions]_vars

---------------------------------------------------------------------------
(* Marking as received *)

\* C21: after setActionData(blob) returns, every action of the ledger whose
\* id the blob mentions and that is not tombstoned has
\* locallyAddedButNotYetReceived = false, whatever the blob is, the bytes of
\* the cached serialization included (the entity is in a tree, so the
\* blob can be deserialized)
C21_MarkedReceived ==
    [][SetDataStep /\ e.element =>
          \A id \in MentionedIn(call.actionData) \cap DOMAIN e'.objectActions :
              id \notin DOMAIN e.previouslyDeletedActions
                  => ~ e'.objectActions[id].locallyAddedButNotYetReceived]_vars

---------------------------------------------------------------------------
(* Action convergence and the expiry of tombstones *)

\* the removal of the action id is remembered with a time no more than
\* rememberDeletedActionTime before the clock reading t
RemovedWithin(ent, id, t) ==
    /\ id \in DOMAIN ent.previouslyDeletedActions
    /\ SubU64(t, ent.previouslyDeletedActions[id]) <= rememberDeletedActionTime

\* C22: when A and B are held, A is removed and action data with only B
\* arrives, the ledger holds exactly B afterwards; action data that mentions
\* A and arrives no more than 20 s after A's removal does not add A again:
\* removeAction remembers the removal with the time of the call, no step
\* forgets a removal or makes it older while 20 s have not passed, and action
\* data does not add an action whose removal is remembered
C22_Convergence ==
    [][/\ RemoveStep =>
            /\ call.actionID \notin DOMAIN e'.objectActions
            /\ call.actionID \in DOMAIN e'.previouslyDeletedActions
            /\ e'.previouslyDeletedActions[call.actionID] = now
       /\ \A id \in DOMAIN e.previouslyDeletedActions :
            RemovedWithin(e, id, now') =>
               /\ id \in DOMAIN e'.previouslyDeletedActions
               /\ e'.previouslyDeletedActions[id] >= e.previouslyDeletedActions[id]
       /\ SetDataStep =>
            /\ ( /\ last.op = "removeAction" /\ last.actionID = "A"
                 /\ last.held = {"A", "B"}
                 /\ MentionedIn(call.actionData) = {"B"} )
                   => DOMAIN e'.objectActions = {"B"}
            /\ ( /\ "A" \in MentionedIn(call.actionData)
                 /\ "A" \notin DOMAIN e.objectActions
                 /\ RemovedWithin(e, "A", now) )
                   => "A" \notin DOMAIN e'.objectActions]_vars

\* action data that mentions A and B was deserialized at the very end of the
\* time for which A's removal is remembered: B is marked as received, A is
\* not in the ledger
C22_Witness ==
    /\ last.op = "setActionData" /\ e.element
    /\ last.held = {"B"} /\ "A" \in last.remembered
    /\ MentionedIn(e.allActionsDataCache) = {"A", "B"}
    /\ DOMAIN e.objectActions = {"B"}
    /\ ~ e.objectActions["B"].locallyAddedButNotYetReceived
    /\ "A" \in DOMAIN e.previouslyDeletedActions
    /\ SubU64(now, e.previouslyDeletedActions["A"]) = rememberDeletedActionTime

\* C23: once more than 20 s have passed since removeAction took A out of
\* the ledger, action data that mentions A is accepted: the setActionData
\* call that gets it adds A to the ledger as an action received from the
\* server
C23_Expiry ==
    [][SetDataStep /\ e.element
         /\ last.op = "removeAction" /\ last.actionID = "A" /\ "A" \in last.held
         /\ "A" \in MentionedIn(call.actionData)
         /\ "A" \notin DOMAIN e.objectActions
         /\ "A" \in DOMAIN e.previouslyDeletedActions
         /\ ~ RemovedWithin(e, "A", now)
         => /\ "A" \in DOMAIN e'.objectActions
            /\ ~ e'.objectActions["A"].locallyAddedButNotYetReceived]_vars

---------------------------------------------------------------------------
(* The creation time, the edit time and the id of the record *)

EditStep == call.op = "setProperties" /\ call' = NoCall
RecordStep == call.op = "recordCreationTime" /\ call' = NoCall

\* C24: once created holds a known value, no decode, setProperties or
\* recordCreationTime call changes it
C24_CreatedSetOnce ==
    [][(DecodeStep \/ EditStep \/ RecordStep) /\ e.created # UNKNOWN_CREATED_TIME
          => e'.created = e.created]_vars

\* C25: lastEdited is never ahead of the clock, whatever packets, clock skews
\* and creation times the record is given
C25_LastEditedNotAhead ==
    e.lastEdited <= now

\* C26: no decode call changes the id of the record, whatever id the bytes
\* carry and whether the packet is used or ignored
C26_IdImmutable ==
    [][DecodeStep => e'.id = e.id]_vars

---------------------------------------------------------------------------
(* The record lock *)

\* the action ledger of the record
LedgerOf(ent) ==
    << ent.objectActions, ent.allActionsDataCache, ent.previouslyDeletedActions,
       ent.actionsToRemove, ent.actionDataDirty >>

\* the thread is between taking the lock and releasing it
Holding(th) == threads[th].at \in {"inside", "leaving"}

\* C27: a mutator changes the ledger only while its thread holds the lock
\* as the one writer; a thread that has returned from its call holds no
\* lock, whatever path the body took; while one thread is inside a mutator
\* no other thread changes the ledger
C27_MutatorsExclusive ==
    [][/\ LedgerOf(e') # LedgerOf(e) =>
            \E th \in Threads :
               /\ threads[th].at = "inside" /\ threads'[th].at = "leaving"
               /\ lock.writer = th /\ lock'.writer = th /\ lock.readers = {}
               /\ \A o \in Threads \ {th} : ~ Holding(o)
       /\ \A th \in Threads :
            /\ Holding(th) /\ threads[th].call.op \in Mutators => lock.writer = th
            /\ threads'[th].at = "idle" =>
                  lock'.writer # th /\ th \notin lock'.readers]_vars

\* addAction has failed and returned false; a thread has then run
\* updateAction for an id that is not there, while the other thread waits
\* for the lock with a mutator
C27_Witness ==
    /\ last.op = "addAction" /\ ~ last.result
    /\ \E th \in Threads :
          /\ threads[th].at = "leaving"
          /\ threads[th].call.op = "updateAction"
          /\ threads[th].call.actionID \notin DOMAIN e.objectActions
          /\ ~ threads[th].result
          /\ lock.writer = th
          /\ \E o \in Threads \ {th} :
                 threads[o].at = "waiting" /\ threads[o].call.op \in Mutators

\* C28: no thread reads the action map or the dirty flag of the cache while
\* another thread's mutator changes them
C28_ReadsLocked ==
    \A th \in Threads : threads[th].at = "reading" => ~ threads[th].raced

---------------------------------------------------------------------------
(* The extrapolation and the simulation stamp at the end of a decode *)

\* the properties whose setters mark a transform or a velocity bit dirty
MarksMotionDirty == TransformProps \cup {"PROP_GRAVITY"}

\* C29: a decode runs the extrapolator only for a packet that was accepted
\* and that carried a transform or velocity property, never for dirty bits
\* that were set before the decode; and the extrapolation does not mark the
\* motion type dirty
C29_ExtrapolatesOwnChanges ==
    [][ReadStep /\ last'.extrapolated =>
          /\ ~ last'.ignored
          /\ Range(last'.fields) \cap MarksMotionDirty # {}
          /\ ( "PROP_DYNAMIC" \notin Range(last'.fields)
               /\ "DIRTY_MOTION_TYPE" \notin e.dirtyFlags )
                 => "DIRTY_MOTION_TYPE" \notin e'.dirtyFlags]_vars

\* C30: after an accepted decode lastSimulated is now, unless the local
\* peer owns the simulation when the stamp is taken, and then lastSimulated
\* is what it was; after an ignored decode lastSimulated is what it was
C30_SimulationStamp ==
    [][ReadStep =>
          IF last'.ignored \/ matchesValidID(e'.simulationOwner, MyNodeID)
          THEN e'.lastSimulated = e.lastSimulated
          ELSE e'.lastSimulated = now]_vars

\* a packet was accepted and extrapolated while the local peer owned the
\* simulation, and lastSimulated is still behind the clock
C30_Witness ==
    /\ last.op = "decode" /\ last.outcome = "read"
    /\ ~ last.ignored /\ last.extrapolated
    /\ matchesValidID(e.simulationOwner, MyNodeID)
    /\ e.lastSimulated < now

---------------------------------------------------------------------------
(* The linear epsilon rule of the extrapolator *)

\* timeElapsed after glm::clamp
ClampedElapsed == Max(0, Min(call.timeElapsed, 1))

\* the velocity of the record after damping, and after damping and
\* acceleration, for the call that has arrived
VelocityDamped ==
    IF e.props["PROP_DAMPING"] > 0
    THEN Damped(e.props["PROP_VELOCITY"], e.props["PROP_DAMPING"], ClampedElapsed)
    ELSE e.props["PROP_VELOCITY"]

VelocityAfter == VelocityDamped + e.props["PROP_ACCELERATION"] * ClampedElapsed

\* the extrapolator runs its linear half: no action, a velocity
LinearStep ==
    AdvanceStep /\ ~ hasActions(e) /\ e.props["PROP_VELOCITY"] # 0

\* C31 as stated: when the speed after damping and acceleration is below the
\* linear epsilon, the velocity is set to zero and the motion type is marked
\* dirty; otherwise the integrated position and the new velocity are both
\* stored
C31_AsStated ==
    [][LinearStep =>
          IF Abs(VelocityAfter) < EPSILON_LINEAR_VELOCITY_LENGTH
          THEN /\ e'.props["PROP_VELOCITY"] = 0
               /\ "DIRTY_MOTION_TYPE" \in e'.dirtyFlags
          ELSE /\ e'.props["PROP_POSITION"]
                    = e.props["PROP_POSITION"] + VelocityDamped * ClampedElapsed
               /\ e'.props["PROP_VELOCITY"] = VelocityAfter]_vars

\* C31: when the speed after damping and acceleration is below the linear
\* epsilon, the velocity is set to zero, the position stays, and the motion
\* type is marked dirty if the caller asked for flags and the speed is not
\* zero (a call without flags leaves the dirty flags as they were);
\* otherwise the integrated position and the new velocity are both stored
C31_EpsilonRule ==
    [][LinearStep =>
          IF Abs(VelocityAfter) < EPSILON_LINEAR_VELOCITY_LENGTH
          THEN /\ e'.props["PROP_VELOCITY"] = 0
               /\ e'.props["PROP_POSITION"] = e.props["PROP_POSITION"]
               /\ call.setFlags /\ Abs(VelocityAfter) > 0
                    => "DIRTY_MOTION_TYPE" \in e'.dirtyFlags
               /\ ~ call.setFlags => e'.dirtyFlags = e.dirtyFlags
               /\ ( /\ Abs(VelocityAfter) = 0
                    /\ e.props["PROP_ANGULAR_VELOCITY"] = 0 )
                    => e'.dirtyFlags = e.dirtyFlags
          ELSE /\ e'.props["PROP_POSITION"]
                    = e.props["PROP_POSITION"] + VelocityDamped * ClampedElapsed
               /\ e'.props["PROP_VELOCITY"] = VelocityAfter]_vars

\* the extrapolator found a speed below the epsilon and above zero: the
\* velocity is zero, the position is where it was, the motion type is dirty
C31_Witness ==
    /\ last.op = "simulateKinematicMotion" /\ ~ last.hadActions
    /\ last.timeElapsed >= 1
    /\ last.before["PROP_VELOCITY"] >= EPSILON_LINEAR_VELOCITY_LENGTH
    /\ last.before["PROP_VELOCITY"] < 2 * EPSILON_LINEAR_VELOCITY_LENGTH
    /\ last.before["PROP_DAMPING"] = DampingOne \div 2
    /\ last.before["PROP_ACCELERATION"] = 0
    /\ e.props["PROP_VELOCITY"] = 0
    /\ e.props["PROP_POSITION"] = last.before["PROP_POSITION"]
    /\ "DIRTY_MOTION_TYPE" \in e.dirtyFlags

---------------------------------------------------------------------------
(* The purge of tombstones *)

\* C32: when a setActionData call on an entity in a tree has returned, no
\* removal is remembered whose time is more than rememberDeletedActionTime
\* before the time of the call
C32_TombstonesPurged ==
    [][SetDataStep /\ e.element =>
          \A id \in DOMAIN e'.previouslyDeletedActions :
              SubU64(now, e'.previouslyDeletedActions[id])
                  <= rememberDeletedActionTime]_vars

---------------------------------------------------------------------------
(* The collision group and the final mask *)

\* the avatar bits of the user collision mask (PhysicsCollisionGroups.h)
USER_COLLISION_GROUP_MY_AVATAR == 8
USER_COLLISION_GROUP_OTHER_AVATAR == 16
USER_COLLISION_MASK_AVATARS ==
    USER_COLLISION_GROUP_MY_AVATAR + USER_COLLISION_GROUP_OTHER_AVATAR

\* bit i of the number n, and the number whose bits are bits[0..7]
BitOf(n, i) == (n \div (2 ^ i)) % 2
RECURSIVE FromBits(_, _)
FromBits(bits, i) ==
    IF i > 7 THEN 0 ELSE bits[i] * (2 ^ i) + FromBits(bits, i + 1)
HasBits(n, group) == \E i \in 0..7 : BitOf(group, i) = 1 /\ BitOf(n, i) = 1

\* userMask ^= USER_COLLISION_MASK_AVATARS | ~userMask, stored in a uint8_t
toggleAvatarBits(userMask) ==
    FromBits([i \in 0..7 |->
                 LET right == Max(BitOf(USER_COLLISION_MASK_AVATARS, i),
                                  1 - BitOf(userMask, i))
                 IN  (BitOf(userMask, i) + right) % 2], 0)

isMoving(ent) ==
    ent.props["PROP_VELOCITY"] # 0 \/ ent.props["PROP_ANGULAR_VELOCITY"] # 0

\* computeCollisionGroupAndFinalMask: the group, and the user mask that the
\* default mask of the group is restricted to (0 for a collisionless entity)
computeCollisionGroupAndFinalMask(ent, sessionUUID) ==
    IF ent.props["PROP_COLLISIONLESS"] # 0
    THEN [group |-> "BULLET_COLLISION_GROUP_COLLISIONLESS", userMask |-> 0]
    ELSE LET group ==
                 IF ent.props["PROP_DYNAMIC"] # 0
                 THEN "BULLET_COLLISION_GROUP_DYNAMIC"
                 ELSE IF isMoving(ent) \/ hasActions(ent)
                      THEN "BULLET_COLLISION_GROUP_KINEMATIC"
                      ELSE "BULLET_COLLISION_GROUP_STATIC"
             userMask == ent.props["PROP_COLLISION_MASK"]
             asymmetric ==
                 HasBits(userMask, USER_COLLISION_GROUP_MY_AVATAR)
                     # HasBits(userMask, USER_COLLISION_GROUP_OTHER_AVATAR)
             simulatorID == ent.simulationOwner.id
         IN  [group |-> group,
              userMask |->
                  IF asymmetric /\ simulatorID # NullID /\ simulatorID # sessionUUID
                  THEN toggleAvatarBits(userMask)
                  ELSE userMask]

ComputeMaskCall == [op |-> "computeCollisionGroupAndFinalMask"]

\* computeCollisionGroupAndFinalMask runs on the call that arrived
ComputeCollisionGroupAndFinalMask ==
    /\ call.op = "computeCollisionGroupAndFinalMask"
    /\ \E r \in { computeCollisionGroupAndFinalMask(e, MyNodeID) } :
           last' = [op |-> call.op, group |-> r.group, userMask |-> r.userMask]
    /\ call' = NoCall
    /\ UNCHANGED <<now, deleted, e, hist, peer, packetData, extra, threads, lock>>

MaskEditCalls ==
    { EditCall([changed |-> ch, created |-> UNKNOWN_CREATED_TIME]) :
        ch \in { [p \in {"PROP_COLLISION_MASK"} |-> m] :
                     m \in 0..ENTITY_COLLISION_MASK_DEFAULT }
               \cup { [p \in {"PROP_SIMULATION_OWNER"} |-> [id |-> id, priority |-> 1]] :
                          id \in {MyNodeID, OtherNodeID} }
               \cup { [p \in {"PROP_COLLISIONLESS"} |-> b] : b \in 0..1 }
               \cup { [p \in {"PROP_DYNAMIC"} |-> b] : b \in 0..1 }
               \cup { [p \in {"PROP_VELOCITY"} |-> UnitsPerMetre] } }

NextMask ==
    \/ Edit(MaskEditCalls)
    \/ Ask({ComputeMaskCall})
    \/ LocalEdit
    \/ ComputeCollisionGroupAndFinalMask

SpecMask == Init /\ [][NextMask]_vars

MaskStep == call.op = "computeCollisionGroupAndFinalMask" /\ call' = NoCall
OneAvatarBit(userMask) ==
    HasBits(userMask, USER_COLLISION_GROUP_MY_AVATAR)
        # HasBits(userMask, USER_COLLISION_GROUP_OTHER_AVATAR)

\* C33: when exactly one avatar bit is set in the user mask and another
\* peer owns the simulation, the adjusted user mask has both avatar bits
\* toggled and every other bit as it was
C33_AvatarBitsSwapped ==
    [][MaskStep /\ e.props["PROP_COLLISIONLESS"] = 0
           /\ OneAvatarBit(e.props["PROP_COLLISION_MASK"])
           /\ e.simulationOwner.id \notin {NullID, MyNodeID}
         => \A i \in 0..7 :
               BitOf(last'.userMask, i)
                   = IF BitOf(USER_COLLISION_MASK_AVATARS, i) = 1
                     THEN 1 - BitOf(e.props["PROP_COLLISION_MASK"], i)
                     ELSE BitOf(e.props["PROP_COLLISION_MASK"], i)]_vars

---------------------------------------------------------------------------
(* The calls of the specification SpecCut: packets handed to the decoder
   whole, and with a byte count that ends inside the header or inside the
   property payloads *)

CutPackets ==
    { Packet(l, flags) :
        l \in {1, MaxNow},
        flags \in { {}, {"PROP_POSITION"}, {"PROP_NAME"},
                    {"PROP_SIMULATION_OWNER", "PROP_POSITION", "PROP_VELOCITY"} } }

CutCalls ==
    UNION { { DecodeCall(data, n, ArgsOf(VERSION_CURRENT, OtherNodeID, 0)) :
                n \in {MINIMUM_HEADER_BYTES, PacketBytes(data) - 1, PacketBytes(data)} } :
            data \in CutPackets }

NextCut ==
    \/ Tick
    \/ Receive(CutCalls)
    \/ Receive(ShortCalls)
    \/ Edit(OwnerEditCalls)
    \/ Decode
    \/ LocalEdit

SpecCut == Init /\ [][NextCut]_vars

\* C34: a decode call that is given at least the minimum header size reads
\* no more bytes than it was given
C34_ConsumedWithinSupplied ==
    [][DecodeStep /\ call.bytesLeftToRead >= MINIMUM_HEADER_BYTES
                  /\ call.args.bitstreamVersion = VERSION_CURRENT
         => last'.bytesRead <= call.bytesLeftToRead]_vars

\* the bytes a decode call reads, by the call alone: none for the version
\* without the header and for less than the minimum header, else the header
\* and the payload of every property the flags announce
BytesOfCall(c) ==
    IF c.args.bitstreamVersion = VERSION_BEFORE_SPLIT_MTU
         \/ c.bytesLeftToRead < MINIMUM_HEADER_BYTES
    THEN 0
    ELSE PacketBytes(c.data)

\* C35: the bytes a decode call reads depend on the packet and the version
\* only: they are the same whether the packet is accepted or ignored and
\* whether or not the local peer owns the simulation
C35_ConsumedIndependentOfState ==
    [][DecodeStep => last'.bytesRead = BytesOfCall(call)]_vars

\* an ignored packet with a position, decoded while the local peer owns the
\* simulation, was read to its end
C35_Witness ==
    /\ last.op = "decode" /\ last.ignored /\ last.weOwnSimulation
    /\ "PROP_POSITION" \in Range(last.fields)
    /\ last.bytesRead = PacketBytes(Packet(1, {"PROP_POSITION"}))
    /\ last.bytesRead > HeaderBytes(Packet(1, {"PROP_POSITION"}))

---------------------------------------------------------------------------
(* lastEdited across a decode *)

\* C36: no decode call, accepted or ignored, from the same server edit or
\* not, leaves lastEdited smaller than it was before the call
C36_LastEditedMonotone ==
    [][DecodeStep => e'.lastEdited >= e.lastEdited]_vars

---------------------------------------------------------------------------
(* The calls of the specification SpecGate: packets that name an owner of
   the simulation and carry a position and a velocity *)

GateProps == {"PROP_SIMULATION_OWNER", "PROP_POSITION", "PROP_VELOCITY"}

GateValue(p, id) ==
    CASE p = "PROP_SIMULATION_OWNER" -> [id |-> id, priority |-> 1]
      [] p = "PROP_POSITION" -> 2 * UnitsPerMetre
      [] p = "PROP_VELOCITY" -> UnitsPerMetre \div 2
      [] OTHER -> WireValue(p)

GatePacket(lastEdited, id) ==
    PacketOf(EntityID, lastEdited, 1, GateProps,
             [p \in getEntityProperties |-> GateValue(p, id)])

GateCalls ==
    { WholePacket(GatePacket(l, id), 0) :
        l \in 1..MaxNow, id \in {MyNodeID, OtherNodeID} }

NextGate ==
    \/ Tick
    \/ ClearDirtyFlags
    \/ Receive(GateCalls)
    \/ Edit(OwnerEditCalls)
    \/ Decode
    \/ LocalEdit

SpecGate == Init /\ [][NextGate]_vars

\* the seconds the extrapolation of the arrived packet skips forward
GateElapsed ==
    SecondsBetween(now,
        AdjustLastSimulated(
            AdjustForClockSkew(call.data.lastEdited, call.args.clockSkew, now),
            call.data.simulatedDelta, TRUE, now))

\* the position and the velocity of the record from after the decode step are
\* those of from, carried forward by the extrapolation if the decode ran it
GateCarried(from) ==
    \E moved \in { IF last'.extrapolated
                   THEN simulateKinematicMotion(from, GateElapsed, FALSE)
                   ELSE from } :
        /\ e'.props["PROP_POSITION"] = moved.props["PROP_POSITION"]
        /\ e'.props["PROP_VELOCITY"] = moved.props["PROP_VELOCITY"]

\* C37: the position and the velocity of an accepted packet are stored by
\* the ownership held when the decode starts: a packet that names the local
\* peer as owner while the local peer does not own the simulation has them
\* stored, a packet that names another owner while the local peer owns the
\* simulation leaves the record's own position and velocity
C37_GateUsesOwnershipBefore ==
    [][ReadStep /\ ~ last'.ignored =>
          /\ ( /\ ~ matchesValidID(e.simulationOwner, MyNodeID)
               /\ \E l \in 1..MaxNow : call.data = GatePacket(l, MyNodeID) )
               => GateCarried([e EXCEPT
                      !.props["PROP_POSITION"] = GateValue("PROP_POSITION", MyNodeID),
                      !.props["PROP_VELOCITY"] = GateValue("PROP_VELOCITY", MyNodeID)])
          /\ ( /\ matchesValidID(e.simulationOwner, MyNodeID)
               /\ \E l \in 1..MaxNow : call.data = GatePacket(l, OtherNodeID) )
               => GateCarried(e)]_vars

\* a packet that made the local peer the owner was accepted while the local
\* peer did not own the simulation, and the record has the packet's velocity
\* and a position not behind the packet's
C37_Witness ==
    /\ last.op = "decode" /\ last.outcome = "read" /\ ~ last.ignored
    /\ ~ last.weOwnSimulation
    /\ matchesValidID(e.simulationOwner, MyNodeID)
    /\ "PROP_POSITION" \in Range(last.fields)
    /\ e.props["PROP_VELOCITY"] = GateValue("PROP_VELOCITY", MyNodeID)
    /\ e.props["PROP_POSITION"] >= GateValue("PROP_POSITION", MyNodeID)

---------------------------------------------------------------------------
(* simulate(now) with the clock reading its caller hands in *)

SimulateCall(t) == [op |-> "simulate", now |-> t]

\* simulate(now) runs on the call that arrived
SimulateAt ==
    /\ call.op = "simulate"
    /\ \E r \in { simulate(e, call.now) } :
           /\ r.props["PROP_POSITION"] <= MaxPosition
           /\ e' = r
    /\ last' = [op |-> call.op, now |-> call.now, lastSimulated |-> e.lastSimulated]
    /\ call' = NoCall
    /\ UNCHANGED <<now, deleted, hist, peer, packetData, extra, threads, lock>>

\* readings of the caller: behind the clock, the clock, ahead of the clock
SimulateCalls == { SimulateCall(t) : t \in 1..(MaxNow + 1) }

SimulateEditCalls ==
    { EditCall([changed |-> ch, created |-> UNKNOWN_CREATED_TIME]) :
        ch \in { [p \in {"PROP_VELOCITY"} |-> UnitsPerMetre],
                 [p \in {"PROP_VELOCITY"} |-> 0],
                 [p \in {"PROP_POSITION"} |-> UnitsPerMetre \div 2] } }

NextSimulate ==
    \/ Tick
    \/ Edit(SimulateEditCalls)
    \/ Ask(SimulateCalls)
    \/ LocalEdit
    \/ SimulateAt

SpecSimulate == Init /\ [][NextSimulate]_vars

SimulateStep == call.op = "simulate" /\ call' = NoCall

\* C38: simulate(now) moves the record by now - lastSimulated seconds,
\* clamped to [0, 1], and sets lastSimulated to now; when now is not after
\* lastSimulated the position, the rotation and the velocity stay
C38_SimulateElapsed ==
    [][SimulateStep =>
          /\ e'.lastSimulated = call.now
          /\ \E since \in { IF e.lastSimulated = 0 THEN call.now ELSE e.lastSimulated } :
               /\ \A p \in TransformProps :
                      e'.props[p]
                        = simulateKinematicMotion(
                              e, Max(0, Min(call.now - since, 1)), TRUE).props[p]
               /\ call.now <= since
                    => \A p \in TransformProps : e'.props[p] = e.props[p]]_vars

---------------------------------------------------------------------------
(* appendEntityData without an extra-encode-data record *)

EncodeWithoutExtraCall(room) == [op |-> "encodeWithoutExtra", room |-> room]

\* what the end of appendEntityData can do when entityTreeElementExtraEncodeData
\* is null: the test before the lookup skips the lookup; the insert of the
\* properties that did not fit goes through the null pointer, which faults
\* or, where the build drops the store, returns
NullExtraOutcomes(appendState) ==
    IF appendState # "COMPLETED" THEN {"faulted", "returned"} ELSE {"returned"}

\* appendEntityData(packetData, params, nullptr) runs on the sender's record
EncodeWithoutExtra ==
    /\ call.op = "encodeWithoutExtra"
    /\ \E r \in { appendEntityData(peer, call.room, << >>) } :
         \E outcome \in NullExtraOutcomes(r.appendState) :
           /\ packetData' = [appendState |-> r.appendState, data |-> r.data,
                             fields |-> r.fields, size |-> r.size]
           /\ last' = [op |-> "encodeWithoutExtra", appendState |-> r.appendState,
                       headerFits |-> r.headerFits, outcome |-> outcome]
    /\ call' = NoCall
    /\ UNCHANGED <<now, deleted, e, hist, peer, extra, threads, lock>>

NextWithoutExtra ==
    \/ Tick
    \/ PeerEdit(PassEditCalls)
    \/ Ask({ EncodeWithoutExtraCall(room) : room \in Rooms })
    \/ EncodeWithoutExtra

SpecWithoutExtra == Init /\ [][NextWithoutExtra]_vars

WithoutExtraStep == call.op = "encodeWithoutExtra" /\ call' = NoCall

\* C39: appendEntityData called without an extra-encode-data record returns
\* an AppendState whatever room the packet has left
C39_ReturnsWithoutExtra ==
    [][WithoutExtraStep => last'.outcome = "returned"]_vars

---------------------------------------------------------------------------
(* The calls of the specification SpecBlob: actions are added here while
   action data with one action arrives from the server *)

\* action data below the maximum: no action, or one action with arguments
SmallBlobs ==
    { << >> } \cup { << SerializedAction("offset", id, 1) >> : id \in ActionIDs }

BlobCalls ==
    { AddActionCall(id, NewAction(1)) : id \in ActionIDs }
    \cup { RemoveActionCall(id) : id \in ActionIDs }
    \cup { SetActionDataCall(actionData) : actionData \in SmallBlobs }

NextBlob ==
    \/ Tick
    \/ AddToTree
    \/ RemoveFromTree
    \/ Ask(BlobCalls)
    \/ AddAction
    \/ RemoveAction
    \/ SetActionData

SpecBlob == Init /\ [][NextBlob]_vars

---------------------------------------------------------------------------
(* The action data the encoder is given *)

\* C40: whatever calls of addAction, updateAction, removeAction, clearActions
\* and setActionData (with action data below the maximum) came before, the
\* bytes getActionData returns are fewer than maxActionsDataSize
C40_ActionDataBelowMaximum ==
    BlobBytes(getActionDataInternal(e).allActionsDataCache) < maxActionsDataSize

=============================================================================
